---- MODULE Spec2Model ----
(***************************************************************************)
(* Markdown-to-sentence segmentation of mumble-embedding.                  *)
(*                                                                         *)
(*   lib/src/markdown.rs  Block Extractor: a stack of contexts driven by   *)
(*                        the Markdown events of pulldown-cmark            *)
(*   lib/src/text.rs      Sentence Transducer: a five-state transducer     *)
(*                        over the fragments of one text block             *)
(*                                                                         *)
(* A Rust String is a sequence of characters; a character is a TLA+        *)
(* string ("a", " ", "U+3002" for the ideographic full stop, ...).         *)
(* Option<T> is a sequence of length 0 (None) or 1 (Some).                 *)
(* Range<usize> is a record [start, end].                                  *)
(*                                                                         *)
(*   lib/src/streams.rs   FlattenResults: a stream of Result<iterable>     *)
(*                        flattened into a stream of Result<item>          *)
(*   src/s3.rs            ObjectListStream: the paginated listing of the   *)
(*                        objects under a prefix                           *)
(*                                                                         *)
(* Four specifications:                                                    *)
(*   Spec         the Block Extractor fed with events                      *)
(*   SpecText     extract_sentences run step by step on one text block     *)
(*   SpecFlatten  FlattenResults polled over one underlying stream         *)
(*   SpecList     ObjectListStream polled over one store                   *)
(***************************************************************************)
EXTENDS Integers, Sequences, FiniteSets, TLC

VARIABLES
    \* ---- Block Extractor (markdown.rs) ----
    state_stack,    \* TextBlockExtractor.state_stack, top is the last element
    text_blocks,    \* TextBlockExtractor.text_blocks
    outcome,        \* "running" | "Ok" | "InvalidContext": result of extract_text_blocks
    pos,            \* byte offset in the source reached by the event stream
    link_start,     \* byte offset at which the innermost open link started
    nevents,        \* number of events processed so far
    call,           \* the last call made on the extractor: the operation, its
                    \* event and range, and the stack and blocks before it
    \* ---- Sentence Transducer (text.rs) ----
    block,          \* the TextBlock given to extract_sentences
    frag_idx,       \* index of the fragment being segmented (fold position)
    char_idx,       \* index of the next character of a Text fragment
    transducer,     \* the live Transducer [num_chars, state], or <<>> between calls
    carry,          \* TransducerState carried from one fragment to the next
    tokens,         \* tokens collected so far
    sentences,      \* result of extract_sentences
    pc,             \* position in extract_sentences
    step,           \* last transducer step: [from, input, k, out, to]
    \* ---- FlattenResults (streams.rs) ----
    source,         \* every result the underlying stream will produce
    stream,         \* FlattenResults.stream: the results not yet produced
    iterator,       \* FlattenResults.iterator: Option of the remaining items
    items,          \* the items yielded so far
    flatten_poll,   \* last poll: [iterator (before), inner, out, wake]
    \* ---- ObjectListStream (s3.rs) ----
    store,          \* the objects under the prefix, in listing order
    objects,        \* ObjectListStream.objects: the page being drained
    next_index,     \* ObjectListStream.next_index
    pending_request,\* ObjectListStream.pending_request: Option of a request
    requests,       \* the start_after of every request sent so far
    listed,         \* the objects yielded so far
    list_poll,      \* last poll: [response, out, wake]
    \* ---- Map (streams.rs) ----
    map_source,     \* every item the underlying stream will produce
    map_stream,     \* Map.stream: the items not yet produced
    pending_map,    \* Map.pending_map: Option of the pending future
    map_calls,      \* the items the mapping function was called with
    mapped,         \* the outputs yielded so far
    map_poll,       \* last poll: [pending (before), inner, future, out, wake]
    \* ---- executor ----
    task            \* the stream that is polled: "none", "map", "flatten", "list"

vars == <<state_stack, text_blocks, outcome, pos, link_start, nevents, call,
          block, frag_idx, char_idx, transducer, carry, tokens, sentences,
          pc, step, source, stream, iterator, items, flatten_poll,
          store, objects, next_index, pending_request, requests, listed,
          list_poll, map_source, map_stream, pending_map, map_calls, mapped,
          map_poll, task>>

ext_vars == <<state_stack, text_blocks, outcome, pos, link_start, nevents,
              call>>

txt_vars == <<block, frag_idx, char_idx, transducer, carry, tokens, sentences,
              pc, step>>

flatten_vars == <<source, stream, iterator, items, flatten_poll>>

list_vars == <<store, objects, next_index, pending_request, requests, listed,
               list_poll>>

map_vars == <<map_source, map_stream, pending_map, map_calls, mapped,
              map_poll>>

io_vars == <<flatten_vars, list_vars, map_vars, task>>

-----------------------------------------------------------------------------
(* Bounds *)

\* Spec: number of Markdown events fed to the extractor.
MaxEvents == 5

\* SpecFlatten: number of results of the underlying stream.
MaxResults == 3

\* SpecMap: number of items of the underlying stream.
MaxMapItems == 3

\* SpecStreamsFair: number of results of the stream that is flattened.
MaxFairResults == 2

\* SpecFlatten: number of items of one iterable.
MaxIterable == 2

\* SpecList: number of objects under the prefix.
MaxObjects == 12

\* SpecList: number of objects of the store that have no key.
MaxKeyless == 1

\* SpecText: number of units (a character of a Text fragment, or one opaque
\* fragment) of a generated text block.
MaxUnits == 4

-----------------------------------------------------------------------------
(* Characters *)

\* char::is_ascii_whitespace: space, tab, line feed, form feed, carriage return
is_ascii_whitespace(ch) == ch \in {" ", "\t", "\n", "\f", "\r"}

\* CharExt::is_sentence_break; U+3002, U+FF01, U+FF1F are the ideographic
\* full stop and the fullwidth exclamation and question marks.
is_sentence_break(ch) == ch \in {"?", "!", ";", "U+3002", "U+FF01", "U+FF1F"}

Range(s, e) == [start |-> s, end |-> e]

\* str::len counts bytes; the three non-ASCII terminators take 3 bytes in UTF-8
ByteLenChar(ch) == IF ch \in {"U+3002", "U+FF01", "U+FF1F"} THEN 3 ELSE 1

RECURSIVE ByteLen(_)
ByteLen(s) == IF s = <<>> THEN 0 ELSE ByteLenChar(Head(s)) + ByteLen(Tail(s))

\* str::chars().count()
CharCount(s) == Len(s)

-----------------------------------------------------------------------------
(* Tokens and transducer states (text.rs 116-150) *)

\* TokenType::Character(ch): the payload is the one-character string
CharacterToken(ch, s, e) == [tt |-> "Character", v |-> <<ch>>, r |-> Range(s, e)]

\* TokenType::String(s)
StringToken(text, s, e) == [tt |-> "String", v |-> text, r |-> Range(s, e)]

\* TokenType::SentenceBreak
SentenceBreakToken(s, e) == [tt |-> "SentenceBreak", v |-> <<>>, r |-> Range(s, e)]

Initial == <<"Initial">>
Character == <<"Character">>
Whitespace(start) == <<"Whitespace", start>>
PeriodAnd(start) == <<"PeriodAnd", start>>
WhitespacePeriodAnd(w_start, p_start) == <<"WhitespacePeriodAnd", w_start, p_start>>

\* todo!() in whitespace_next panics: the call never returns a state
Panicked == <<"Panicked">>

-----------------------------------------------------------------------------
(* TransducerState transitions (text.rs 235-661).  nc is transducer.num_chars. *)
(* Each returns <<next state, output tokens>>.                              *)

\* mutant: leading whitespace is passed on
initial_next_keeps_blank(nc, ch) ==
    <<Character, <<CharacterToken(ch, nc, nc + 1)>>>>

initial_next(nc, ch) ==
    IF is_ascii_whitespace(ch)
    THEN <<Initial, <<>>>>
    ELSE <<Character, <<CharacterToken(ch, nc, nc + 1)>>>>

initial_next_string(nc, text) ==
    <<Character, <<StringToken(text, nc, nc + CharCount(text))>>>>

initial_finish == <<Initial, <<>>>>

\* mutant: an unambiguous terminator is passed on as an ordinary character
character_next_no_break(nc, ch) ==
    IF is_ascii_whitespace(ch) THEN <<Whitespace(nc), <<>>>>
    ELSE IF ch = "." THEN <<PeriodAnd(nc), <<>>>>
    ELSE <<Character, <<CharacterToken(ch, nc, nc + 1)>>>>

character_next(nc, ch) ==
    IF is_ascii_whitespace(ch) THEN <<Whitespace(nc), <<>>>>
    ELSE IF ch = "." THEN <<PeriodAnd(nc), <<>>>>
    ELSE IF is_sentence_break(ch)
    THEN <<Initial, <<CharacterToken(ch, nc, nc + 1),
                      SentenceBreakToken(nc + 1, nc + 1)>>>>
    ELSE <<Character, <<CharacterToken(ch, nc, nc + 1)>>>>

\* mutant: the opaque string closes the sentence
character_next_string_breaks(nc, text) ==
    <<Initial, <<StringToken(text, nc, nc + CharCount(text)),
                 SentenceBreakToken(nc + CharCount(text), nc + CharCount(text))>>>>

character_next_string(nc, text) ==
    <<Character, <<StringToken(text, nc, nc + CharCount(text))>>>>

character_finish == <<Initial, <<>>>>

whitespace_next(nc, start, ch) ==
    IF is_ascii_whitespace(ch) THEN <<Whitespace(start), <<>>>>
    ELSE IF ch = "." THEN <<WhitespacePeriodAnd(start, nc), <<>>>>
    ELSE IF is_sentence_break(ch) THEN <<Panicked, <<>>>>   \* todo!("{}", ch)
    ELSE <<Character, <<CharacterToken(" ", start, nc),
                        CharacterToken(ch, nc, nc + 1)>>>>

\* mutant: the range of the String token is counted in bytes
whitespace_next_string_counts_bytes(nc, start, text) ==
    <<Character, <<CharacterToken(" ", start, nc),
                   StringToken(text, nc, nc + ByteLen(text))>>>>

whitespace_next_string(nc, start, text) ==
    <<Character, <<CharacterToken(" ", start, nc),
                   StringToken(text, nc, nc + CharCount(text))>>>>

\* mutant: trailing whitespace is dropped at the end of the block
whitespace_finish_drops(nc, start) == <<Initial, <<>>>>

whitespace_finish(nc, start) ==
    <<Initial, <<CharacterToken(" ", start, nc)>>>>

\* mutant: the period commits whatever follows it
period_and_next_commits(nc, start, ch) ==
    IF is_ascii_whitespace(ch)
    THEN <<Initial, <<CharacterToken(".", start, start + 1),
                      SentenceBreakToken(start + 1, start + 1)>>>>
    ELSE <<Character, <<CharacterToken(".", start, start + 1),
                        SentenceBreakToken(start + 1, start + 1),
                        CharacterToken(ch, nc, nc + 1)>>>>

\* mutant: a period after a held period is held in its turn
period_and_next_holds_again(nc, start, ch) ==
    IF is_ascii_whitespace(ch)
    THEN <<Initial, <<CharacterToken(".", start, start + 1),
                      SentenceBreakToken(start + 1, start + 1)>>>>
    ELSE IF ch = "."
    THEN <<PeriodAnd(nc), <<CharacterToken(".", start, start + 1)>>>>
    ELSE <<Character, <<CharacterToken(".", start, start + 1),
                        CharacterToken(ch, nc, nc + 1)>>>>

period_and_next(nc, start, ch) ==
    IF is_ascii_whitespace(ch)
    THEN <<Initial, <<CharacterToken(".", start, start + 1),
                      SentenceBreakToken(start + 1, start + 1)>>>>
    ELSE <<Character, <<CharacterToken(".", start, start + 1),
                        CharacterToken(ch, nc, nc + 1)>>>>

period_and_next_string(nc, start, text) ==
    <<Character, <<CharacterToken(".", start, start + 1),
                   StringToken(text, nc, nc + CharCount(text))>>>>

\* mutant: a period held at the end of the block is dropped
period_and_finish_drops(start) == <<Initial, <<>>>>

period_and_finish(start) ==
    <<Initial, <<CharacterToken(".", start, start + 1),
                 SentenceBreakToken(start + 1, start + 1)>>>>

\* mutant: the whitespace before a committed period is kept
whitespace_period_and_next_keeps_blank(nc, w_start, p_start, ch) ==
    IF is_ascii_whitespace(ch)
    THEN <<Initial, <<CharacterToken(" ", w_start, p_start),
                      CharacterToken(".", p_start, p_start + 1),
                      SentenceBreakToken(p_start + 1, p_start + 1)>>>>
    ELSE <<Character, <<CharacterToken(" ", w_start, p_start),
                        CharacterToken(".", p_start, p_start + 1),
                        CharacterToken(ch, nc, nc + 1)>>>>

whitespace_period_and_next(nc, w_start, p_start, ch) ==
    IF is_ascii_whitespace(ch)
    THEN <<Initial, <<CharacterToken(".", p_start, p_start + 1),
                      SentenceBreakToken(p_start + 1, p_start + 1)>>>>
    ELSE <<Character, <<CharacterToken(" ", w_start, p_start),
                        CharacterToken(".", p_start, p_start + 1),
                        CharacterToken(ch, nc, nc + 1)>>>>

\* mutant: the held period is lost when an opaque string follows
whitespace_period_and_next_string_loses_period(nc, w_start, p_start, text) ==
    <<Character, <<CharacterToken(" ", w_start, p_start),
                   StringToken(text, nc, nc + CharCount(text))>>>>

whitespace_period_and_next_string(nc, w_start, p_start, text) ==
    <<Character, <<CharacterToken(" ", w_start, p_start),
                   CharacterToken(".", p_start, p_start + 1),
                   StringToken(text, nc, nc + CharCount(text))>>>>

whitespace_period_and_finish(p_start) ==
    <<Initial, <<CharacterToken(".", p_start, p_start + 1),
                 SentenceBreakToken(p_start + 1, p_start + 1)>>>>

\* TransducerState::next
state_next(self, nc, ch) ==
    CASE self[1] = "Initial" -> initial_next(nc, ch)
      [] self[1] = "Character" -> character_next(nc, ch)
      [] self[1] = "Whitespace" -> whitespace_next(nc, self[2], ch)
      [] self[1] = "PeriodAnd" -> period_and_next(nc, self[2], ch)
      [] self[1] = "WhitespacePeriodAnd" ->
            whitespace_period_and_next(nc, self[2], self[3], ch)

\* TransducerState::next_string
state_next_string(self, nc, text) ==
    CASE self[1] = "Initial" -> initial_next_string(nc, text)
      [] self[1] = "Character" -> character_next_string(nc, text)
      [] self[1] = "Whitespace" -> whitespace_next_string(nc, self[2], text)
      [] self[1] = "PeriodAnd" -> period_and_next_string(nc, self[2], text)
      [] self[1] = "WhitespacePeriodAnd" ->
            whitespace_period_and_next_string(nc, self[2], self[3], text)

\* TransducerState::finish
state_finish(self, nc) ==
    CASE self[1] = "Initial" -> initial_finish
      [] self[1] = "Character" -> character_finish
      [] self[1] = "Whitespace" -> whitespace_finish(nc, self[2])
      [] self[1] = "PeriodAnd" -> period_and_finish(self[2])
      [] self[1] = "WhitespacePeriodAnd" -> whitespace_period_and_finish(self[3])

-----------------------------------------------------------------------------
(* Transducer (text.rs 152-180): a record [num_chars, state]; a panic in    *)
(* the transition leaves state = Panicked and unwinds the caller.           *)

new_from(state, start) == [num_chars |-> start, state |-> state]

\* Transducer::next: <<transducer after the call, output>>
transducer_next(t, ch) ==
    LET res == state_next(t.state, t.num_chars, ch)
    IN  IF res[1] = Panicked
        THEN <<[num_chars |-> t.num_chars, state |-> Panicked], <<>>>>
        ELSE <<[num_chars |-> t.num_chars + 1, state |-> res[1]], res[2]>>

\* Transducer::next_string: num_chars advances by text.len(), the byte length
transducer_next_string(t, text) ==
    LET res == state_next_string(t.state, t.num_chars, text)
    IN  <<[num_chars |-> t.num_chars + ByteLen(text), state |-> res[1]], res[2]>>

\* Transducer::finish
transducer_finish(t) ==
    LET res == state_finish(t.state, t.num_chars)
    IN  <<[num_chars |-> t.num_chars, state |-> res[1]], res[2]>>

-----------------------------------------------------------------------------
(* Blocks and fragments (markdown.rs 8-60) *)

\* Fragment = (FragmentContent, Range): kind is "Text", "Code" or "Url"
Fragment(kind, s, range) == [kind |-> kind, s |-> s, range |-> range]

\* mutant: every fragment counts as text
is_text_any(f) == TRUE

\* FragmentContent::is_text
is_text(f) == f.kind = "Text"

\* TextBlock::Text(fragments)
TextBlockText(fragments) == [type |-> "Text", fragments |-> fragments]

\* TextBlock::Code { language, code, range }
TextBlockCode(language, code, range) ==
    [type |-> "Code", language |-> language, code |-> code, range |-> range]

-----------------------------------------------------------------------------
(* extract_sentences as a function (text.rs 11-114) *)

\* segment_text: the loop over text.chars(); a panic stops the loop
RECURSIVE segment_chars(_, _, _, _)
segment_chars(t, text, i, toks) ==
    IF i > Len(text) \/ t.state = Panicked
    THEN <<toks, t.state>>
    ELSE LET res == transducer_next(t, text[i])
         IN  segment_chars(res[1], text, i + 1, toks \o res[2])

segment_text(state, text, range) ==
    segment_chars(new_from(state, range.start), text, 1, <<>>)

pass_token_string(state, text, range) ==
    LET res == transducer_next_string(new_from(state, range.start), text)
    IN  <<res[2], res[1].state>>

\* segment_fragment: <<tokens, state>>
segment_fragment(state, f) ==
    IF f.kind = "Text"
    THEN segment_text(state, f.s, f.range)
    ELSE pass_token_string(state, f.s, f.range)

\* the first fold of extract_sentences_from_fragments: <<tokens, state>>
RECURSIVE segment_fragments(_, _, _, _)
segment_fragments(fragments, i, toks, state) ==
    IF i > Len(fragments) \/ state = Panicked
    THEN <<toks, state>>
    ELSE LET res == segment_fragment(state, fragments[i])
         IN  segment_fragments(fragments, i + 1, toks \o res[1], res[2])

\* fragments.last().map(|(_, r)| r.end).unwrap_or(0)
last_end(fragments) ==
    IF fragments = <<>> THEN 0 ELSE fragments[Len(fragments)].range.end

\* tokens.extend(transducer.finish())
finish_tokens(state, fragments) ==
    transducer_finish(new_from(state, last_end(fragments)))[2]

\* One step of the second fold (text.rs 43-66).  A sentence is
\* [text, range, units]; units is a history field: the indices (in the
\* token list) of the tokens pushed into the sentence.
\* mutant: the range of a sentence opened by a break starts at its first token
push_token_from_first_token(sents, tok, i) ==
    IF tok.tt = "SentenceBreak"
    THEN Append(sents, [text |-> <<>>, range |-> tok.r, units |-> <<>>])
    ELSE IF sents = <<>>
    THEN <<[text |-> tok.v, range |-> tok.r, units |-> <<i>>]>>
    ELSE LET n == Len(sents)
             last == sents[n]
         IN  [sents EXCEPT ![n] =
                [text |-> last.text \o tok.v,
                 range |-> IF last.units = <<>> THEN tok.r
                           ELSE Range(last.range.start, tok.r.end),
                 units |-> Append(last.units, i)]]

push_token(sents, tok, i) ==
    IF tok.tt = "SentenceBreak"
    THEN Append(sents, [text |-> <<>>, range |-> tok.r, units |-> <<>>])
    ELSE IF sents = <<>>
    THEN <<[text |-> tok.v, range |-> tok.r, units |-> <<i>>]>>
    ELSE LET n == Len(sents)
             last == sents[n]
         IN  [sents EXCEPT ![n] =
                [text |-> last.text \o tok.v,
                 range |-> Range(last.range.start, tok.r.end),
                 units |-> Append(last.units, i)]]

RECURSIVE fold_tokens(_, _, _)
fold_tokens(toks, i, sents) ==
    IF i > Len(toks) THEN sents
    ELSE fold_tokens(toks, i + 1, push_token(sents, toks[i], i))

\* .filter(|(sentence, _)| !sentence.is_empty())
non_empty(sent) == sent.text # <<>>

\* mutant: the empty sentences are kept
collect_sentences_unfiltered(toks) == fold_tokens(toks, 1, <<>>)

\* the second fold and the filter (text.rs 41-70)
collect_sentences(toks) == SelectSeq(fold_tokens(toks, 1, <<>>), non_empty)

\* extract_sentences_from_fragments: [panicked, tokens, sentences]
extract_sentences_from_fragments(fragments) ==
    LET seg == segment_fragments(fragments, 1, <<>>, Initial)
    IN  IF seg[2] = Panicked
        THEN [panicked |-> TRUE, tokens |-> seg[1], sentences |-> <<>>]
        ELSE LET toks == seg[1] \o finish_tokens(seg[2], fragments)
             IN  [panicked |-> FALSE, tokens |-> toks,
                  sentences |-> collect_sentences(toks)]

\* mutant: a code block is segmented like a paragraph
extract_sentences_segments_code(text_block) ==
    extract_sentences_from_fragments(
        IF text_block.type = "Text" THEN text_block.fragments
        ELSE <<Fragment("Text", text_block.code, text_block.range)>>)

\* extract_sentences
extract_sentences(text_block) ==
    IF text_block.type = "Text"
    THEN extract_sentences_from_fragments(text_block.fragments)
    ELSE [panicked |-> FALSE, tokens |-> <<>>,
          sentences |-> <<[text |-> text_block.code,
                           range |-> text_block.range,
                           units |-> <<>>]>>]

\* the (String, Range<usize>) pairs of a result
Pairs(sents) == [i \in 1..Len(sents) |-> <<sents[i].text, sents[i].range>>]

-----------------------------------------------------------------------------
(* SpecText: the text blocks given to extract_sentences.  A generated text *)
(* block is laid out from a sequence of units, as the extractor lays out   *)
(* a paragraph: consecutive characters coalesce into one Text fragment,    *)
(* an inline code `s` is a Code fragment, an empty link [](u) a Url.       *)

Alphabet == {"a", " ", ".", "?"}

CharUnits == {<<"Text", <<c>>>> : c \in Alphabet}

OpaqueUnits == { <<"Code", <<".", " ", "?">>>>, <<"Url", <<"u">>>>, <<"Url", <<>>>> }

Units == CharUnits \cup OpaqueUnits

\* bytes of the source taken by a unit: a character, `code`, [](url)
UnitBytes(u) ==
    CASE u[1] = "Text" -> ByteLen(u[2])
      [] u[1] = "Code" -> ByteLen(u[2]) + 2
      [] u[1] = "Url"  -> ByteLen(u[2]) + 4

RECURSIVE Layout(_, _, _, _)
Layout(units, i, p, frags) ==
    IF i > Len(units) THEN frags
    ELSE LET u == units[i]
             n == Len(frags)
             e == p + UnitBytes(u)
         IN  IF u[1] = "Text" /\ n > 0 /\ frags[n].kind = "Text"
             THEN Layout(units, i + 1, e,
                    [frags EXCEPT ![n] =
                        Fragment("Text", frags[n].s \o u[2],
                                 Range(frags[n].range.start, e))])
             ELSE Layout(units, i + 1, e,
                    Append(frags, Fragment(u[1], u[2], Range(p, e))))

StartOffsets == {0, 2}

GeneratedTextBlocks ==
    { TextBlockText(Layout(us, 1, p, <<>>)) :
        us \in UNION { [1..n -> Units] : n \in 0..MaxUnits },
        p \in StartOffsets }

\* the seed scenarios "Hello. World!" and "See e.g. foo."
HelloWorld == <<"H", "e", "l", "l", "o", ".", " ", "W", "o", "r", "l", "d", "!">>

SeeEgFoo == <<"S", "e", "e", " ", "e", ".", "g", ".", " ", "f", "o", "o", ".">>

\* a code span of two characters and four bytes
WideCode == <<"U+3002", "b">>

\* the title of a reference link with no text: "aaaaaaaaa? b?"
TwoSentenceTitle ==
    <<"a", "a", "a", "a", "a", "a", "a", "a", "a", "?", " ", "b", "?">>

\* the paragraph "[][r]`x`a? b?", r defined with the title above: the link
\* is the Text fragment of its title over the five bytes of the link
TitledLinkBlock ==
    TextBlockText(<<Fragment("Text", TwoSentenceTitle, Range(0, 5)),
                    Fragment("Code", <<"x">>, Range(5, 8)),
                    Fragment("Text", <<"a", "?", " ", "b", "?">>, Range(8, 13))>>)

\* "a", m periods, a blank and "b"
PeriodRun(m) ==
    TextBlockText(<<Fragment("Text",
                             <<"a">> \o [i \in 1..m |-> "."] \o <<" ", "b">>,
                             Range(0, m + 3))>>)

SeedTextBlocks ==
    { PeriodRun(m) : m \in 1..4 } \cup
    { TitledLinkBlock,
      TextBlockText(<<Fragment("Text", HelloWorld, Range(0, 13))>>),
      TextBlockText(<<Fragment("Text", SeeEgFoo, Range(0, 13))>>),
      TextBlockText(<<Fragment("Text", <<"a", " ">>, Range(0, 2)),
                      Fragment("Code", WideCode, Range(2, 8))>>) }

CodeBlocks ==
    { TextBlockCode(l, c, r) :
        l \in {<<>>, <<"rust">>},
        c \in {<<>>, <<"f">>, <<"a", ".", " ", "b", "?", "\n">>},
        r \in {Range(0, 9), Range(3, 16)} }

InputBlocks == GeneratedTextBlocks \cup SeedTextBlocks \cup CodeBlocks

NoStep == [from |-> <<"none">>, input |-> <<"none">>, k |-> 0, out |-> <<>>,
           to |-> <<"none">>]

NoBlock == TextBlockText(<<>>)

\* Option<T>
None == <<>>

Some(x) == <<x>>

\* Result<T, E>
Ok(x) == <<"Ok", x>>

Err(e) == <<"Err", e>>

\* std::task::Poll<T>
Pending == <<"Pending">>

Ready(x) == <<"Ready", x>>

\* no poll made yet
NoFlattenPoll == [iterator |-> None, inner |-> <<"none">>, out |-> <<"none">>,
                  wake |-> FALSE]

NoListPoll == [response |-> <<"none">>, out |-> <<"none">>, wake |-> FALSE]

FlattenIdle ==
    /\ source = <<>> /\ stream = <<>> /\ iterator = None /\ items = <<>>
    /\ flatten_poll = NoFlattenPoll

ListIdle ==
    /\ store = <<>> /\ objects = <<>> /\ next_index = 0
    /\ pending_request = None /\ requests = <<>> /\ listed = <<>>
    /\ list_poll = NoListPoll

NoMapPoll == [pending |-> None, inner |-> <<"none">>, future |-> <<"none">>,
              out |-> <<"none">>, wake |-> FALSE]

MapIdle ==
    /\ map_source = <<>> /\ map_stream = <<>> /\ pending_map = None
    /\ map_calls = <<>> /\ mapped = <<>>
    /\ map_poll = NoMapPoll

IoIdle == FlattenIdle /\ ListIdle /\ MapIdle /\ task = "none"

TextIdle ==
    /\ block = NoBlock /\ frag_idx = 0 /\ char_idx = 0 /\ transducer = <<>>
    /\ carry = Initial /\ tokens = <<>> /\ sentences = <<>> /\ pc = "idle"
    /\ step = NoStep

\* no call made on the extractor yet
NoCall == [op |-> "none", event |-> <<>>, range |-> <<>>, stack |-> <<>>,
           blocks |-> <<>>]

ExtractorIdle ==
    /\ state_stack = <<>> /\ text_blocks = <<>> /\ outcome = "idle"
    /\ pos = 0 /\ link_start = 0 /\ nevents = 0
    /\ call = NoCall

InitText ==
    /\ ExtractorIdle
    /\ IoIdle
    /\ block \in InputBlocks
    /\ frag_idx = 1 /\ char_idx = 1 /\ transducer = <<>>
    /\ carry = Initial /\ tokens = <<>> /\ sentences = <<>> /\ pc = "call"
    /\ step = NoStep

\* extract_sentences (text.rs 11-20): a Code block is one sentence
ExtractSentences ==
    /\ pc = "call"
    /\ IF block.type = "Code"
       THEN /\ sentences' = extract_sentences(block).sentences
            /\ pc' = "done"
       ELSE /\ sentences' = sentences
            /\ pc' = "fold"
    /\ UNCHANGED <<block, frag_idx, char_idx, transducer, carry, tokens, step>>
    /\ UNCHANGED <<ext_vars, io_vars>>

\* segment_fragment entered: Transducer::new_from(state, range.start)
NewFrom ==
    /\ pc = "fold" /\ transducer = <<>>
    /\ frag_idx <= Len(block.fragments)
    /\ transducer' = <<new_from(carry, block.fragments[frag_idx].range.start)>>
    /\ char_idx' = 1
    /\ UNCHANGED <<block, frag_idx, carry, tokens, sentences, pc, step>>
    /\ UNCHANGED <<ext_vars, io_vars>>

\* segment_text: tokens.extend(transducer.next(ch)) for the next character
TransducerNext ==
    /\ pc = "fold" /\ transducer # <<>>
    /\ block.fragments[frag_idx].kind = "Text"
    /\ char_idx <= Len(block.fragments[frag_idx].s)
    /\ LET t == transducer[1]
           ch == block.fragments[frag_idx].s[char_idx]
           res == transducer_next(t, ch)
       IN  /\ transducer' = <<res[1]>>
           /\ tokens' = tokens \o res[2]
           /\ step' = [from |-> t.state, input |-> <<"char", ch>>,
                       k |-> t.num_chars, out |-> res[2], to |-> res[1].state]
           /\ pc' = IF res[1].state = Panicked THEN "panicked" ELSE pc
    /\ char_idx' = char_idx + 1
    /\ UNCHANGED <<block, frag_idx, carry, sentences>>
    /\ UNCHANGED <<ext_vars, io_vars>>

\* pass_token_string: transducer.next_string(text)
TransducerNextString ==
    /\ pc = "fold" /\ transducer # <<>>
    /\ block.fragments[frag_idx].kind # "Text"
    /\ char_idx = 1
    /\ LET t == transducer[1]
           text == block.fragments[frag_idx].s
           res == transducer_next_string(t, text)
       IN  /\ transducer' = <<res[1]>>
           /\ tokens' = tokens \o res[2]
           /\ step' = [from |-> t.state, input |-> <<"string", text>>,
                       k |-> t.num_chars, out |-> res[2], to |-> res[1].state]
    /\ char_idx' = 2
    /\ UNCHANGED <<block, frag_idx, carry, sentences, pc>>
    /\ UNCHANGED <<ext_vars, io_vars>>

\* segment_text / pass_token_string return (tokens, transducer.state.unwrap())
EndFragment ==
    /\ pc = "fold" /\ transducer # <<>>
    /\ IF block.fragments[frag_idx].kind = "Text"
       THEN char_idx > Len(block.fragments[frag_idx].s)
       ELSE char_idx = 2
    /\ carry' = transducer[1].state
    /\ transducer' = <<>>
    /\ frag_idx' = frag_idx + 1
    /\ char_idx' = 1
    /\ UNCHANGED <<block, tokens, sentences, pc, step>>
    /\ UNCHANGED <<ext_vars, io_vars>>

\* text.rs 36-40: Transducer::new_from(state, last end), transducer.finish()
TransducerFinish ==
    /\ pc = "fold" /\ transducer = <<>>
    /\ frag_idx > Len(block.fragments)
    /\ LET t == new_from(carry, last_end(block.fragments))
           res == transducer_finish(t)
       IN  /\ tokens' = tokens \o res[2]
           /\ carry' = res[1].state
           /\ step' = [from |-> t.state, input |-> <<"finish">>,
                       k |-> t.num_chars, out |-> res[2], to |-> res[1].state]
    /\ pc' = "collect"
    /\ UNCHANGED <<block, frag_idx, char_idx, transducer, sentences>>
    /\ UNCHANGED <<ext_vars, io_vars>>

\* text.rs 41-70: fold the tokens into sentences, drop the empty ones
CollectSentences ==
    /\ pc = "collect"
    /\ sentences' = collect_sentences(tokens)
    /\ pc' = "done"
    /\ UNCHANGED <<block, frag_idx, char_idx, transducer, carry, tokens, step>>
    /\ UNCHANGED <<ext_vars, io_vars>>

NextText ==
    \/ ExtractSentences
    \/ NewFrom
    \/ TransducerNext
    \/ TransducerNextString
    \/ EndFragment
    \/ TransducerFinish
    \/ CollectSentences

SpecText == InitText /\ [][NextText]_vars

-----------------------------------------------------------------------------
(* Block Extractor (markdown.rs 85-575)                                     *)

\* TextBlockExtractorState
Blank == [ctx |-> "Blank"]

\* paragraph_type is "Paragraph" or "Item"
Paragraph(paragraph_type, fragments) ==
    [ctx |-> "Paragraph", paragraph_type |-> paragraph_type,
     fragments |-> fragments]

CodeBlock(language, code, range) ==
    [ctx |-> "CodeBlock", language |-> language, code |-> code, range |-> range]

Link(fragments) == [ctx |-> "Link", fragments |-> fragments]

Strikethrough == [ctx |-> "Strikethrough"]

\* A pulldown-cmark event.  tag is "Start", "End", "Text", "Code", "Html",
\* "SoftBreak", "HardBreak", "TaskListMarker", "Rule" or "FootnoteReference";
\* what names the Tag of a Start or End; s is the string of Text, Code and
\* Html; kind is the CodeBlockKind of Tag::CodeBlock (<<>> in other events);
\* ltype, url and title are the fields of Tag::Link.
Event(tag, what, s, kind, ltype, url, title) ==
    [tag |-> tag, what |-> what, s |-> s, kind |-> kind, ltype |-> ltype,
     url |-> url, title |-> title]

\* CodeBlockKind
Indented == <<"Indented">>
Fenced(info) == <<"Fenced", info>>

Start(what) == Event("Start", what, <<>>, <<>>, "", <<>>, <<>>)
End(what) == Event("End", what, <<>>, <<>>, "", <<>>, <<>>)
StartCodeBlock(kind) == Event("Start", "CodeBlock", <<>>, kind, "", <<>>, <<>>)
EndLink(ltype, url, title) == Event("End", "Link", <<>>, <<>>, ltype, url, title)
TextEvent(s) == Event("Text", "", s, <<>>, "", <<>>, <<>>)
CodeEvent(s) == Event("Code", "", s, <<>>, "", <<>>, <<>>)
HtmlEvent(s) == Event("Html", "", s, <<>>, "", <<>>, <<>>)
Leaf(tag) == Event(tag, "", <<>>, <<>>, "", <<>>, <<>>)

\* The extractor as a value: [state_stack, text_blocks, err]; err is ""
\* for Ok(()) and the error kind otherwise.
Extractor(stack, blocks, err) ==
    [state_stack |-> stack, text_blocks |-> blocks, err |-> err]

Push(ex, frames) == [ex EXCEPT !.state_stack = @ \o frames]
\* mutant: a Text block without fragments is not emitted
Emit_unless_empty(ex, b) ==
    IF b.type = "Text" /\ b.fragments = <<>>
    THEN ex
    ELSE [ex EXCEPT !.text_blocks = Append(@, b)]

Emit(ex, b) == [ex EXCEPT !.text_blocks = Append(@, b)]
Fail(ex, kind) == [ex EXCEPT !.err = kind]

\* mutant: the range of the last fragment is not extended
append_text_keeps_end(fragments, text, range) ==
    LET n == Len(fragments)
    IN  IF n > 0 /\ is_text(fragments[n])
        THEN [fragments EXCEPT ![n] =
                Fragment("Text", fragments[n].s \o text, fragments[n].range)]
        ELSE Append(fragments, Fragment("Text", text, range))

\* the coalescing of Event::Text (markdown.rs 340-358) and of a Text
\* fragment in paragraph_process_fragment (551-567)
append_text(fragments, text, range) ==
    LET n == Len(fragments)
    IN  IF n > 0 /\ is_text(fragments[n])
        THEN [fragments EXCEPT ![n] =
                Fragment("Text", fragments[n].s \o text,
                         Range(fragments[n].range.start, range.end))]
        ELSE Append(fragments, Fragment("Text", text, range))

\* mutant: the line break is appended to a last fragment of any kind
append_line_break_any(fragments) ==
    LET n == Len(fragments)
    IN  IF n > 0
        THEN [fragments EXCEPT ![n] =
                Fragment(fragments[n].kind, fragments[n].s \o <<"\n">>,
                         fragments[n].range)]
        ELSE fragments

\* Event::SoftBreak (markdown.rs 388-402): a line break is appended to the
\* last fragment unless it is not a text
append_line_break(fragments) ==
    LET n == Len(fragments)
    IN  IF n > 0 /\ is_text(fragments[n])
        THEN [fragments EXCEPT ![n] =
                Fragment("Text", fragments[n].s \o <<"\n">>,
                         fragments[n].range)]
        ELSE fragments

\* let language = match kind { Fenced(language) => Some(language),
\*                             Indented => None }
language_of(kind) == IF kind[1] = "Fenced" THEN <<kind[2]>> ELSE <<>>

\* mutant: the end of a block quote or list is rejected at the root frame
blank_process_event_keeps_root(ex, event, range) ==
    CASE event.tag = "Start" /\ event.what = "Paragraph" ->
            Push(ex, <<Blank, Paragraph("Paragraph", <<>>)>>)
      [] event.tag = "Start" /\ event.what = "CodeBlock" ->
            Push(ex, <<Blank, CodeBlock(language_of(event.kind), <<>>, range)>>)
      [] event.tag = "Start" /\ event.what \in {"BlockQuote", "List"} ->
            Push(ex, <<Blank, Blank>>)
      [] event.tag = "End" /\ event.what \in {"BlockQuote", "List"} ->
            IF ex.state_stack = <<>> THEN Fail(ex, "InvalidContext") ELSE ex
      [] event.tag = "Start" /\ event.what = "Item" ->
            Push(ex, <<Blank, Paragraph("Item", <<>>)>>)
      [] OTHER -> Fail(ex, "InvalidContext")

\* blank_process_event; ex is the extractor after the frame was popped
blank_process_event(ex, event, range) ==
    CASE event.tag = "Start" /\ event.what = "Paragraph" ->
            Push(ex, <<Blank, Paragraph("Paragraph", <<>>)>>)
      [] event.tag = "Start" /\ event.what = "CodeBlock" ->
            Push(ex, <<Blank, CodeBlock(language_of(event.kind), <<>>, range)>>)
      [] event.tag = "Start" /\ event.what = "BlockQuote" ->
            Push(ex, <<Blank, Blank>>)
      [] event.tag = "End" /\ event.what = "BlockQuote" -> ex
      [] event.tag = "Start" /\ event.what = "List" ->
            Push(ex, <<Blank, Blank>>)
      [] event.tag = "End" /\ event.what = "List" -> ex
      [] event.tag = "Start" /\ event.what = "Item" ->
            Push(ex, <<Blank, Paragraph("Item", <<>>)>>)
      [] OTHER -> Fail(ex, "InvalidContext")

\* mutant: a link replaces the paragraph it opens in
paragraph_process_event_link_replaces(paragraph_type, fragments, ex, event, range) ==
    CASE event.tag = "End" /\ event.what = "Paragraph" ->
            IF paragraph_type = "Paragraph"
            THEN Emit(ex, TextBlockText(fragments))
            ELSE Fail(ex, "InvalidContext")
      [] event.tag = "End" /\ event.what = "Item" ->
            IF paragraph_type = "Item"
            THEN Emit(ex, TextBlockText(fragments))
            ELSE Fail(ex, "InvalidContext")
      [] event.tag = "HardBreak" ->
            Push(Emit(ex, TextBlockText(fragments)),
                 <<Paragraph(paragraph_type, <<>>)>>)
      [] event.tag = "Text" ->
            Push(ex, <<Paragraph(paragraph_type,
                                 append_text(fragments, event.s, range))>>)
      [] event.tag \in {"Code", "Html"} ->
            Push(ex, <<Paragraph(paragraph_type,
                         Append(fragments, Fragment("Code", event.s, range)))>>)
      [] event.tag = "Start" /\ event.what = "Link" ->
            Push(ex, <<Link(<<>>)>>)
      [] event.tag = "Start" /\ event.what = "Strikethrough" ->
            Push(ex, <<Paragraph(paragraph_type, fragments), Strikethrough>>)
      [] event.tag \in {"Start", "End"} /\ event.what \in {"Strong", "Emphasis"} ->
            Push(ex, <<Paragraph(paragraph_type, fragments)>>)
      [] event.tag = "SoftBreak" ->
            Push(ex, <<Paragraph(paragraph_type, append_line_break(fragments))>>)
      [] OTHER -> Fail(ex, "InvalidContext")

\* paragraph_process_event
paragraph_process_event(paragraph_type, fragments, ex, event, range) ==
    CASE event.tag = "End" /\ event.what = "Paragraph" ->
            IF paragraph_type = "Paragraph"
            THEN Emit(ex, TextBlockText(fragments))
            ELSE Fail(ex, "InvalidContext")
      [] event.tag = "End" /\ event.what = "Item" ->
            IF paragraph_type = "Item"
            THEN Emit(ex, TextBlockText(fragments))
            ELSE Fail(ex, "InvalidContext")
      [] event.tag = "HardBreak" ->
            Push(Emit(ex, TextBlockText(fragments)),
                 <<Paragraph(paragraph_type, <<>>)>>)
      [] event.tag = "Text" ->
            Push(ex, <<Paragraph(paragraph_type,
                                 append_text(fragments, event.s, range))>>)
      [] event.tag \in {"Code", "Html"} ->
            Push(ex, <<Paragraph(paragraph_type,
                         Append(fragments, Fragment("Code", event.s, range)))>>)
      [] event.tag = "Start" /\ event.what = "Link" ->
            Push(ex, <<Paragraph(paragraph_type, fragments), Link(<<>>)>>)
      [] event.tag = "Start" /\ event.what = "Strikethrough" ->
            Push(ex, <<Paragraph(paragraph_type, fragments), Strikethrough>>)
      [] event.tag \in {"Start", "End"} /\ event.what \in {"Strong", "Emphasis"} ->
            Push(ex, <<Paragraph(paragraph_type, fragments)>>)
      [] event.tag = "SoftBreak" ->
            Push(ex, <<Paragraph(paragraph_type, append_line_break(fragments))>>)
      [] OTHER -> Fail(ex, "InvalidContext")

\* mutant: a second Text is appended to the code
code_block_process_event_concats(language, code, code_range, ex, event) ==
    CASE event.tag = "End" /\ event.what = "CodeBlock" ->
            IF code # <<>>
            THEN Emit(ex, TextBlockCode(language, code[1], code_range))
            ELSE Fail(ex, "InvalidContext")
      [] event.tag = "Text" ->
            IF code = <<>>
            THEN Push(ex, <<CodeBlock(language, <<event.s>>, code_range)>>)
            ELSE Push(ex, <<CodeBlock(language, <<code[1] \o event.s>>,
                                      code_range)>>)
      [] OTHER -> Fail(ex, "InvalidContext")

\* mutant: the emitted code block has no language
code_block_process_event_no_language(language, code, code_range, ex, event) ==
    CASE event.tag = "End" /\ event.what = "CodeBlock" ->
            IF code # <<>>
            THEN Emit(ex, TextBlockCode(<<>>, code[1], code_range))
            ELSE Fail(ex, "InvalidContext")
      [] event.tag = "Text" ->
            IF code = <<>>
            THEN Push(ex, <<CodeBlock(language, <<event.s>>, code_range)>>)
            ELSE Fail(ex, "InvalidContext")
      [] OTHER -> Fail(ex, "InvalidContext")

\* mutant: a code block without a body is emitted with an empty code
code_block_process_event_emits_empty(language, code, code_range, ex, event) ==
    CASE event.tag = "End" /\ event.what = "CodeBlock" ->
            Emit(ex, TextBlockCode(language,
                                   IF code # <<>> THEN code[1] ELSE <<>>,
                                   code_range))
      [] event.tag = "Text" ->
            IF code = <<>>
            THEN Push(ex, <<CodeBlock(language, <<event.s>>, code_range)>>)
            ELSE Fail(ex, "InvalidContext")
      [] OTHER -> Fail(ex, "InvalidContext")

\* code_block_process_event
code_block_process_event(language, code, code_range, ex, event) ==
    CASE event.tag = "End" /\ event.what = "CodeBlock" ->
            IF code # <<>>
            THEN Emit(ex, TextBlockCode(language, code[1], code_range))
            ELSE Fail(ex, "InvalidContext")
      [] event.tag = "Text" ->
            IF code = <<>>
            THEN Push(ex, <<CodeBlock(language, <<event.s>>, code_range)>>)
            ELSE Fail(ex, "InvalidContext")
      [] OTHER -> Fail(ex, "InvalidContext")

\* mutant: the fragment of a closing link is pushed without coalescing
paragraph_process_fragment_push(paragraph_type, fragments, ex, fragment) ==
    Push(ex, <<Paragraph(paragraph_type, Append(fragments, fragment))>>)

\* paragraph_process_fragment
paragraph_process_fragment(paragraph_type, fragments, ex, fragment) ==
    Push(ex, <<Paragraph(paragraph_type,
                 IF fragment.kind = "Text"
                 THEN append_text(fragments, fragment.s, fragment.range)
                 ELSE Append(fragments, fragment))>>)

\* TextBlockExtractor::process_fragment and
\* TextBlockExtractorState::process_fragment
process_fragment(ex, fragment) ==
    IF ex.state_stack = <<>>
    THEN Fail(ex, "InvalidContext")
    ELSE LET n == Len(ex.state_stack)
             state == ex.state_stack[n]
             popped == [ex EXCEPT !.state_stack = SubSeq(@, 1, n - 1)]
         IN  IF state.ctx = "Paragraph"
             THEN paragraph_process_fragment(state.paragraph_type,
                                             state.fragments, popped, fragment)
             ELSE Fail(popped, "InvalidContext")

\* mutant: only the first fragment of the link is delivered
process_fragments_first_only(ex, fragments, i) ==
    IF fragments = <<>> THEN ex ELSE process_fragment(ex, fragments[1])

\* for fragment in fragments { extractor.process_fragment(fragment)?; }
RECURSIVE process_fragments(_, _, _)
process_fragments(ex, fragments, i) ==
    IF i > Len(fragments) \/ ex.err # "" THEN ex
    ELSE process_fragments(process_fragment(ex, fragments[i]), fragments, i + 1)

\* mutant: an empty link is replaced by its url even when it has a title
link_process_event_url_first(fragments, ex, event, range) ==
    CASE event.tag = "End" /\ event.what = "Link" ->
            process_fragments(ex,
                IF fragments = <<>>
                THEN <<Fragment("Url", event.url, range)>>
                ELSE fragments, 1)
      [] event.tag = "Text" ->
            Push(ex, <<Link(Append(fragments, Fragment("Text", event.s, range)))>>)
      [] event.tag = "Code" ->
            Push(ex, <<Link(Append(fragments, Fragment("Code", event.s, range)))>>)
      [] OTHER -> Fail(ex, "InvalidContext")

\* link_process_event
link_process_event(fragments, ex, event, range) ==
    CASE event.tag = "End" /\ event.what = "Link" ->
            LET filled ==
                    IF fragments = <<>>
                    THEN IF event.title = <<>>
                         THEN <<Fragment("Url", event.url, range)>>
                         ELSE <<Fragment("Text", event.title, range)>>
                    ELSE fragments
            IN  process_fragments(ex, filled, 1)
      [] event.tag = "Text" ->
            Push(ex, <<Link(Append(fragments, Fragment("Text", event.s, range)))>>)
      [] event.tag = "Code" ->
            Push(ex, <<Link(Append(fragments, Fragment("Code", event.s, range)))>>)
      [] OTHER -> Fail(ex, "InvalidContext")

\* mutant: the end of the strikethrough removes the paragraph as well
strikethrough_process_event_pops_twice(ex, event) ==
    CASE event.tag = "End" /\ event.what = "Strikethrough" ->
            [ex EXCEPT !.state_stack = SubSeq(@, 1, Len(@) - 1)]
      [] event.tag \in {"Text", "Code"} -> Push(ex, <<Strikethrough>>)
      [] OTHER -> Fail(ex, "InvalidContext")

\* mutant: every event but the end of the strikethrough is absorbed
strikethrough_process_event_absorbs(ex, event) ==
    IF event.tag = "End" /\ event.what = "Strikethrough"
    THEN ex
    ELSE Push(ex, <<Strikethrough>>)

\* strikethrough_process_event
strikethrough_process_event(ex, event) ==
    CASE event.tag = "End" /\ event.what = "Strikethrough" -> ex
      [] event.tag \in {"Text", "Code"} -> Push(ex, <<Strikethrough>>)
      [] OTHER -> Fail(ex, "InvalidContext")

\* TextBlockExtractorState::process_event
state_process_event(state, ex, event, range) ==
    CASE state.ctx = "Blank" -> blank_process_event(ex, event, range)
      [] state.ctx = "Paragraph" ->
            paragraph_process_event(state.paragraph_type, state.fragments,
                                    ex, event, range)
      [] state.ctx = "CodeBlock" ->
            code_block_process_event(state.language, state.code, state.range,
                                     ex, event)
      [] state.ctx = "Link" ->
            link_process_event(state.fragments, ex, event, range)
      [] state.ctx = "Strikethrough" -> strikethrough_process_event(ex, event)

\* TextBlockExtractor::process_event
process_event(ex, event, range) ==
    IF ex.state_stack = <<>>
    THEN Fail(ex, "InvalidContext")
    ELSE LET n == Len(ex.state_stack)
         IN  state_process_event(
                ex.state_stack[n],
                [ex EXCEPT !.state_stack = SubSeq(@, 1, n - 1)],
                event, range)

\* mutant: finish looks at the top frame only
finish_top_blank(ex) ==
    IF ex.state_stack = <<>>
    THEN "InvalidContext"
    ELSE IF ex.state_stack[Len(ex.state_stack)].ctx = "Blank"
         THEN "Ok"
         ELSE "InvalidContext"

\* TextBlockExtractor::finish: "Ok" (the blocks are returned) or the error
finish(ex) ==
    IF ex.state_stack = <<>>
    THEN "InvalidContext"
    ELSE LET n == Len(ex.state_stack)
         IN  IF ex.state_stack[n].ctx = "Blank" /\ n = 1
             THEN "Ok"
             ELSE "InvalidContext"

-----------------------------------------------------------------------------
(* Spec: extract_text_blocks (markdown.rs 71-83) fed with an event stream. *)
(* The events are those of pulldown-cmark's offset iterator: in document   *)
(* order, each with its byte range.  pos is the offset the stream has      *)
(* reached; a link's End event carries the range of the whole link.  The   *)
(* url and title of an inline link [..](url "title") lie inside the link's *)
(* range; those of a reference link [..][r] come from the definition of r  *)
(* elsewhere in the document, and the link's own range is that of [..][r]. *)

\* " panicked at"
PanickedAt == <<" ", "p", "a", "n", "i", "c", "k", "e", "d", " ", "a", "t">>

TextStrings == { <<"a">>, <<"?", " ">>, PanickedAt }

CodeStrings == { <<"x">> }

\* "<unnamed>"
Unnamed == <<"<", "u", "n", "n", "a", "m", "e", "d", ">">>

HtmlStrings == { Unnamed }

LongUrl == <<"u", "r", "l", ":", "/", "x">>

LongTitle == <<"a", "a", "a", "a", "a", "a", "?">>

LinkEnds ==
    { EndLink("Inline", <<>>, <<>>),
      EndLink("Inline", <<"u">>, <<>>),
      EndLink("Inline", <<"u">>, <<"t">>),
      EndLink("Reference", LongUrl, <<>>),
      EndLink("Reference", <<"u">>, LongTitle) }

Containers ==
    {"Paragraph", "Item", "BlockQuote", "List", "Strikethrough", "Strong",
     "Emphasis", "Table", "Heading", "Image"}

Events ==
    {Start(w) : w \in Containers \cup {"Link"}}
    \cup {End(w) : w \in Containers \cup {"CodeBlock"}}
    \cup {StartCodeBlock(k) : k \in {Indented, Fenced("rust"), Fenced("")}}
    \cup LinkEnds
    \cup {TextEvent(t) : t \in TextStrings}
    \cup {CodeEvent(c) : c \in CodeStrings}
    \cup {HtmlEvent(h) : h \in HtmlStrings}
    \cup {Leaf(t) : t \in {"SoftBreak", "HardBreak", "TaskListMarker", "Rule",
                            "FootnoteReference"}}

\* bytes of the source between the start of the event and the next event
EventBytes(event) ==
    CASE event.tag = "Text" -> ByteLen(event.s)
      [] event.tag = "Code" -> ByteLen(event.s) + 2             \* `s`
      [] event.tag = "Html" -> ByteLen(event.s)
      [] event.tag = "SoftBreak" -> 1
      [] event.tag = "HardBreak" -> 2
      [] event.tag = "Start" /\ event.what = "CodeBlock" ->
            IF event.kind = Indented THEN 4              \* the indent
            ELSE IF event.kind = Fenced("") THEN 4       \* ```\n
            ELSE 8                                       \* ```rust\n
      [] event.tag = "Start" /\ event.what \in {"Item", "BlockQuote"} -> 2
      [] event.tag = "Start" /\ event.what \in {"Paragraph", "List"} -> 0
      [] event.tag = "End" /\ event.what \in {"BlockQuote", "List"} -> 0
      [] event.tag = "End" /\ event.what = "CodeBlock" -> 3
      [] event.tag \in {"Start", "End"}
            /\ event.what \in {"Strong", "Strikethrough"} -> 2
      [] event.tag = "Start" /\ event.what = "Link" -> 1        \* [
      [] event.tag = "End" /\ event.what = "Link" ->
            IF event.ltype = "Reference" THEN 4                 \* ][r]
            ELSE 3 + ByteLen(event.url)                         \* ](url)
                 + (IF event.title = <<>> THEN 0
                    ELSE ByteLen(event.title) + 3)              \* ](url "t")
      [] OTHER -> 1

\* the range the offset iterator gives with the event
EventRange(event) ==
    CASE event.tag = "End" /\ event.what = "Link" ->
            Range(link_start, pos + EventBytes(event))
      [] event.tag = "Start" /\ event.what = "CodeBlock" ->
            Range(pos, pos + EventBytes(event) + 5)   \* the whole code block
      [] OTHER -> Range(pos, pos + EventBytes(event))

TheExtractor == Extractor(state_stack, text_blocks, "")

\* TextBlockExtractor::new, at the start of extract_text_blocks
Init ==
    /\ state_stack = <<Blank>>
    /\ text_blocks = <<>>
    /\ outcome = "running"
    /\ pos = 0 /\ link_start = 0 /\ nevents = 0
    /\ call = NoCall
    /\ TextIdle
    /\ IoIdle

\* mutant: a failed event is skipped and the loop goes on
propagate_skips(ex) == "running"

\* the ? of extractor.process_event(event, range)?: an Err leaves the loop
\* and is the result of extract_text_blocks
propagate(ex) == IF ex.err = "" THEN "running" ELSE ex.err

\* one turn of the loop of extract_text_blocks:
\* extractor.process_event(event, range)?
Feed(event) ==
    /\ outcome = "running"
    /\ nevents < MaxEvents
    /\ LET ex == process_event(TheExtractor, event, EventRange(event))
       IN  /\ state_stack' = ex.state_stack
           /\ text_blocks' = ex.text_blocks
           /\ outcome' = propagate(ex)
    /\ call' = [op |-> "process_event", event |-> event,
                range |-> EventRange(event), stack |-> state_stack,
                blocks |-> text_blocks]
    /\ pos' = pos + EventBytes(event)
    /\ link_start' = IF event.tag = "Start" /\ event.what = "Link"
                     THEN pos ELSE link_start
    /\ nevents' = nevents + 1
    /\ UNCHANGED <<txt_vars, io_vars>>

Top == state_stack[Len(state_stack)]

BlankProcessEvent ==
    /\ state_stack # <<>> /\ Top.ctx = "Blank"
    /\ \E event \in Events : Feed(event)

ParagraphProcessEvent ==
    /\ state_stack # <<>> /\ Top.ctx = "Paragraph"
    /\ \E event \in Events : Feed(event)

CodeBlockProcessEvent ==
    /\ state_stack # <<>> /\ Top.ctx = "CodeBlock"
    /\ \E event \in Events : Feed(event)

LinkProcessEvent ==
    /\ state_stack # <<>> /\ Top.ctx = "Link"
    /\ \E event \in Events : Feed(event)

StrikethroughProcessEvent ==
    /\ state_stack # <<>> /\ Top.ctx = "Strikethrough"
    /\ \E event \in Events : Feed(event)

\* process_event with an empty stack: "undefined state"
UndefinedStateProcessEvent ==
    /\ state_stack = <<>>
    /\ \E event \in Events : Feed(event)

\* the events are exhausted: extractor.finish()
Finish ==
    /\ outcome = "running"
    /\ outcome' = finish(TheExtractor)
    /\ call' = [op |-> "finish", event |-> <<>>, range |-> <<>>,
                stack |-> state_stack, blocks |-> text_blocks]
    /\ UNCHANGED <<state_stack, text_blocks, pos, link_start, nevents>>
    /\ UNCHANGED <<txt_vars, io_vars>>

\* what extract_text_blocks returns: nothing while the loop runs, Ok with
\* the blocks, or Err with the error and no blocks
extract_text_blocks_result ==
    CASE outcome \in {"running", "idle"} -> <<>>
      [] outcome = "Ok" -> <<"Ok", text_blocks>>
      [] OTHER -> <<"Err", outcome>>

Next ==
    \/ BlankProcessEvent
    \/ ParagraphProcessEvent
    \/ CodeBlockProcessEvent
    \/ LinkProcessEvent
    \/ StrikethroughProcessEvent
    \/ UndefinedStateProcessEvent
    \/ Finish

Spec == Init /\ [][Next]_vars

-----------------------------------------------------------------------------
(* FlattenResults (lib/src/streams.rs) *)

\* the sequences over S of length at most n
SeqsUpTo(S, n) == UNION { [1..m -> S] : m \in 0..n }

\* the items of an iterable
Items == {"x", "y"}

Iterables == SeqsUpTo(Items, MaxIterable)

\* the items of the underlying stream: Result<iterable, error>
Results == { Ok(iterable) : iterable \in Iterables } \cup { Err("e") }

Sources == SeqsUpTo(Results, MaxResults)

\* struct FlattenResults
FlattenResults(s, it) == [stream |-> s, iterator |-> it]

\* FlattenResults::new, called by flatten_results
FlattenResults_new(s) == FlattenResults(s, None)

\* poll_next of the underlying stream s: not ready yet, or ready with its
\* next result, or ready with None at its end
stream_poll_next(s) ==
    { [stream |-> s, out |-> Pending] } \cup
    { IF s = <<>> THEN [stream |-> s, out |-> Ready(None)]
                  ELSE [stream |-> Tail(s), out |-> Ready(Some(Head(s)))] }

\* the underlying stream is not polled
NotPolled(s) == [stream |-> s, out |-> <<"none">>]

\* mutant: an Err ends the stream
FlattenResults_poll_next_err_ends(self, inner) ==
    IF self.iterator # None
    THEN LET it == self.iterator[1]
         IN  IF it # <<>>
             THEN [self |-> FlattenResults(self.stream, Some(Tail(it))),
                   out |-> Ready(Some(Ok(Head(it)))), wake |-> FALSE]
             ELSE [self |-> FlattenResults(self.stream, None),
                   out |-> Pending, wake |-> TRUE]
    ELSE LET s == inner.stream
         IN  IF inner.out = Pending
             THEN [self |-> FlattenResults(s, None), out |-> Pending,
                   wake |-> FALSE]
             ELSE IF inner.out = Ready(None)
             THEN [self |-> FlattenResults(s, None), out |-> Ready(None),
                   wake |-> FALSE]
             ELSE LET result == inner.out[2][1]
                  IN  IF result[1] = "Ok"
                      THEN [self |-> FlattenResults(s, Some(result[2])),
                            out |-> Pending, wake |-> TRUE]
                      ELSE [self |-> FlattenResults(s, None),
                            out |-> Ready(None), wake |-> FALSE]

\* mutant: the stream does not wake itself when it takes an iterable
FlattenResults_poll_next_no_wake(self, inner) ==
    IF self.iterator # None
    THEN LET it == self.iterator[1]
         IN  IF it # <<>>
             THEN [self |-> FlattenResults(self.stream, Some(Tail(it))),
                   out |-> Ready(Some(Ok(Head(it)))), wake |-> FALSE]
             ELSE [self |-> FlattenResults(self.stream, None),
                   out |-> Pending, wake |-> TRUE]
    ELSE LET s == inner.stream
         IN  IF inner.out = Pending
             THEN [self |-> FlattenResults(s, None), out |-> Pending,
                   wake |-> FALSE]
             ELSE IF inner.out = Ready(None)
             THEN [self |-> FlattenResults(s, None), out |-> Ready(None),
                   wake |-> FALSE]
             ELSE LET result == inner.out[2][1]
                  IN  IF result[1] = "Ok"
                      THEN [self |-> FlattenResults(s, Some(result[2])),
                            out |-> Pending, wake |-> FALSE]
                      ELSE [self |-> FlattenResults(s, None),
                            out |-> Ready(Some(Err(result[2]))),
                            wake |-> FALSE]

\* FlattenResults::poll_next; inner is what the underlying stream answers
\* when it is polled. wake: cx.waker().wake_by_ref() was called.
FlattenResults_poll_next(self, inner) ==
    IF self.iterator # None
    THEN LET it == self.iterator[1]
         IN  IF it # <<>>
             THEN [self |-> FlattenResults(self.stream, Some(Tail(it))),
                   out |-> Ready(Some(Ok(Head(it)))), wake |-> FALSE]
             ELSE [self |-> FlattenResults(self.stream, None),
                   out |-> Pending, wake |-> TRUE]
    ELSE LET s == inner.stream
         IN  IF inner.out = Pending
             THEN [self |-> FlattenResults(s, None), out |-> Pending,
                   wake |-> FALSE]
             ELSE IF inner.out = Ready(None)
             THEN [self |-> FlattenResults(s, None), out |-> Ready(None),
                   wake |-> FALSE]
             ELSE LET result == inner.out[2][1]
                  IN  IF result[1] = "Ok"
                      THEN [self |-> FlattenResults(s, Some(result[2])),
                            out |-> Pending, wake |-> TRUE]
                      ELSE [self |-> FlattenResults(s, None),
                            out |-> Ready(Some(Err(result[2]))),
                            wake |-> FALSE]

\* stream.flatten_results() over a stream that will produce source
InitFlatten ==
    /\ ExtractorIdle /\ TextIdle /\ ListIdle /\ MapIdle
    /\ task = "flatten"
    /\ source \in Sources
    /\ stream = FlattenResults_new(source).stream
    /\ iterator = FlattenResults_new(source).iterator
    /\ items = <<>>
    /\ flatten_poll = NoFlattenPoll

\* the executor polls a task again after a Pending only when its waker was
\* woken: by the stream itself before it returned, or later by the inner
\* future or stream that answered Pending and so holds the waker
Woken(poll, inner) == poll.out = Pending => (poll.wake \/ inner = Pending)

\* the consumer polls the flattened stream until it ends
FlattenPollNext ==
    /\ task = "flatten"
    /\ flatten_poll.out # Ready(None)
    /\ Woken(flatten_poll, flatten_poll.inner)
    /\ \E inner \in (IF iterator = None THEN stream_poll_next(stream)
                                        ELSE {NotPolled(stream)}) :
          LET p == FlattenResults_poll_next(FlattenResults(stream, iterator),
                                            inner)
          IN  /\ stream' = p.self.stream
              /\ iterator' = p.self.iterator
              /\ items' = IF p.out \notin {Pending, Ready(None)}
                          THEN Append(items, p.out[2][1]) ELSE items
              /\ flatten_poll' = [iterator |-> iterator, inner |-> inner.out,
                                  out |-> p.out, wake |-> p.wake]
    /\ UNCHANGED <<source, ext_vars, txt_vars, list_vars, map_vars, task>>

NextFlatten == FlattenPollNext

SpecFlatten == InitFlatten /\ [][NextFlatten]_vars

-----------------------------------------------------------------------------
(* Map (lib/src/streams.rs) *)

MapSources == SeqsUpTo(Items, MaxMapItems)

\* the output of the future that the mapping function f returns for an item
map_f(item) == <<"f", item>>

\* struct Map; the pending future is known by the item it was made from
Map(s, pending) == [stream |-> s, pending_map |-> pending]

\* Map::new, called by map_async
Map_new(s) == Map(s, None)

\* Future::poll of the pending future of an item: not ready, or its output
future_poll(item) == {Pending, Ready(map_f(item))}

\* mutant: the next item is taken while a future is pending, which is lost
Map_poll_next_overtakes(self, inner, future) ==
    IF self.pending_map # None /\ self.stream = <<>>
    THEN IF future = Pending
         THEN [self |-> self, out |-> Pending, wake |-> FALSE, called |-> None]
         ELSE [self |-> Map(self.stream, None), out |-> Ready(Some(future[2])),
               wake |-> FALSE, called |-> None]
    ELSE IF self.stream = <<>>
    THEN [self |-> self, out |-> Ready(None), wake |-> FALSE, called |-> None]
    ELSE [self |-> Map(Tail(self.stream), Some(Head(self.stream))),
          out |-> Pending, wake |-> TRUE, called |-> Some(Head(self.stream))]

\* Map::poll_next; future is what the pending future answers and inner what
\* the underlying stream answers, when polled. called: the item (self.f)
\* was called with. wake: cx.waker().wake_by_ref() was called.
Map_poll_next(self, inner, future) ==
    IF self.pending_map # None
    THEN IF future = Pending
         THEN [self |-> self, out |-> Pending, wake |-> FALSE, called |-> None]
         ELSE [self |-> Map(self.stream, None), out |-> Ready(Some(future[2])),
               wake |-> FALSE, called |-> None]
    ELSE LET s == inner.stream
         IN  IF inner.out = Pending
             THEN [self |-> Map(s, None), out |-> Pending, wake |-> FALSE,
                   called |-> None]
             ELSE IF inner.out = Ready(None)
             THEN [self |-> Map(s, None), out |-> Ready(None), wake |-> FALSE,
                   called |-> None]
             ELSE LET item == inner.out[2][1]
                  IN  [self |-> Map(s, Some(item)), out |-> Pending,
                       wake |-> TRUE, called |-> Some(item)]

\* stream.map_async(f) over a stream that will produce map_source
InitMap ==
    /\ ExtractorIdle /\ TextIdle /\ FlattenIdle /\ ListIdle
    /\ task = "map"
    /\ map_source \in MapSources
    /\ map_stream = Map_new(map_source).stream
    /\ pending_map = Map_new(map_source).pending_map
    /\ map_calls = <<>>
    /\ mapped = <<>>
    /\ map_poll = NoMapPoll

\* the consumer polls the mapping stream until it ends
MapPollNext ==
    /\ task = "map"
    /\ map_poll.out # Ready(None)
    /\ Woken(map_poll, IF map_poll.pending # None THEN map_poll.future
                                                 ELSE map_poll.inner)
    /\ \E inner \in (IF pending_map = None THEN stream_poll_next(map_stream)
                                           ELSE {NotPolled(map_stream)}),
          future \in (IF pending_map # None THEN future_poll(pending_map[1])
                                            ELSE {<<"none">>}) :
          LET p == Map_poll_next(Map(map_stream, pending_map), inner, future)
          IN  /\ map_stream' = p.self.stream
              /\ pending_map' = p.self.pending_map
              /\ map_calls' = map_calls \o p.called
              /\ mapped' = IF p.out \notin {Pending, Ready(None)}
                           THEN Append(mapped, p.out[2][1]) ELSE mapped
              /\ map_poll' = [pending |-> pending_map, inner |-> inner.out,
                              future |-> future, out |-> p.out,
                              wake |-> p.wake]
    /\ UNCHANGED <<map_source, ext_vars, txt_vars, flatten_vars, list_vars,
                   task>>

NextMap == MapPollNext

SpecMap == InitMap /\ [][NextMap]_vars

-----------------------------------------------------------------------------
(* ObjectListStream (src/s3.rs) *)

\* .max_keys(10) of every list request
max_keys == 10

\* aws_sdk_s3::types::Object, of which the stream reads the key only
Object(key) == [key |-> key]

\* the n objects of a store in listing order: object i has the key i, which
\* makes the keys ascending, or no key when i is in keyless
StoreOf(n, keyless) ==
    [i \in 1..n |-> Object(IF i \in keyless THEN None ELSE Some(i))]

Stores ==
    { StoreOf(n, keyless) :
        n \in 0..MaxObjects,
        keyless \in { K \in SUBSET (1..MaxObjects) :
                        Cardinality(K) <= MaxKeyless } }

\* a list_objects_v2 request for the prefix
Request(start_after) == [max_keys |-> max_keys, start_after |-> start_after]

\* ListObjectsV2Output of the store st for a request: the first max_keys
\* objects behind the key start_after; no contents when there is none
list_objects_v2(st, request) ==
    LET from == IF request.start_after = None THEN 1
                ELSE request.start_after[1] + 1
        to == IF Len(st) < from + request.max_keys - 1 THEN Len(st)
              ELSE from + request.max_keys - 1
        page == SubSeq(st, from, to)
    IN  [contents |-> IF page = <<>> THEN None ELSE Some(page)]

\* Future::poll of a pending request: not ready, its output, or an error
request_poll(st, request) ==
    {Pending, Ready(Ok(list_objects_v2(st, request))), Ready(Err("SdkError"))}

\* Option::unwrap_or_default on the contents
unwrap_or_default(contents) == IF contents = None THEN <<>> ELSE contents[1]

\* struct ObjectListStream (its config is the prefix, fixed)
ObjectListStream(objs, idx, pending) ==
    [objects |-> objs, next_index |-> idx, pending_request |-> pending]

\* ObjectListStream::new: the first request has no start_after
ObjectListStream_new == ObjectListStream(<<>>, 0, Some(Request(None)))

\* the indices, from next_index on, of the objects of the page with a key
KeyedFrom(self) ==
    { i \in (self.next_index + 1)..Len(self.objects) :
        self.objects[i].key # None }

\* the pending request is polled by poll_next: no keyed object is left
PollsRequest(self) == KeyedFrom(self) = {} /\ self.pending_request # None

\* mutant: a failed request leaves the stream pending
ObjectListStream_poll_next_hangs(self, response) ==
    IF KeyedFrom(self) # {}
    THEN LET i == CHOOSE i \in KeyedFrom(self) :
                      \A j \in KeyedFrom(self) : i <= j
         IN  [self |-> ObjectListStream(self.objects, i, self.pending_request),
              out |-> Ready(Some(self.objects[i])), wake |-> FALSE]
    ELSE LET idx == IF self.next_index < Len(self.objects)
                    THEN Len(self.objects) ELSE self.next_index
             drained == ObjectListStream(self.objects, idx,
                                         self.pending_request)
         IN  IF self.pending_request = None
             THEN [self |-> drained, out |-> Ready(None), wake |-> FALSE]
             ELSE IF response = Pending
             THEN [self |-> drained, out |-> Pending, wake |-> FALSE]
             ELSE IF response[2][1] # "Ok"
             THEN [self |-> drained, out |-> Pending, wake |-> FALSE]
             ELSE LET objs == unwrap_or_default(response[2][2].contents)
                      last_key == IF objs = <<>> THEN None
                                  ELSE objs[Len(objs)].key
                  IN  [self |-> ObjectListStream(objs, 0,
                                   IF last_key # None
                                   THEN Some(Request(last_key)) ELSE None),
                       out |-> Pending, wake |-> TRUE]

\* ObjectListStream::poll_next; response is what the pending request
\* answers when it is polled. wake: cx.waker().wake_by_ref() was called.
ObjectListStream_poll_next(self, response) ==
    IF KeyedFrom(self) # {}
    THEN LET i == CHOOSE i \in KeyedFrom(self) :
                      \A j \in KeyedFrom(self) : i <= j
         IN  [self |-> ObjectListStream(self.objects, i, self.pending_request),
              out |-> Ready(Some(self.objects[i])), wake |-> FALSE]
    ELSE LET idx == IF self.next_index < Len(self.objects)
                    THEN Len(self.objects) ELSE self.next_index
             drained == ObjectListStream(self.objects, idx,
                                         self.pending_request)
         IN  IF self.pending_request = None
             THEN [self |-> drained, out |-> Ready(None), wake |-> FALSE]
             ELSE IF response = Pending
             THEN [self |-> drained, out |-> Pending, wake |-> FALSE]
             ELSE IF response[2][1] # "Ok"
             THEN [self |-> drained, out |-> Ready(None), wake |-> FALSE]
             ELSE LET objs == unwrap_or_default(response[2][2].contents)
                      last_key == IF objs = <<>> THEN None
                                  ELSE objs[Len(objs)].key
                  IN  [self |-> ObjectListStream(objs, 0,
                                   IF last_key # None
                                   THEN Some(Request(last_key)) ELSE None),
                       out |-> Pending, wake |-> TRUE]

\* ObjectList::into_stream over a store
InitList ==
    /\ ExtractorIdle /\ TextIdle /\ FlattenIdle /\ MapIdle
    /\ task = "list"
    /\ store \in Stores
    /\ objects = ObjectListStream_new.objects
    /\ next_index = ObjectListStream_new.next_index
    /\ pending_request = ObjectListStream_new.pending_request
    /\ requests = <<None>>
    /\ listed = <<>>
    /\ list_poll = NoListPoll

\* the consumer polls the object stream until it ends
ListPollNext ==
    /\ task = "list"
    /\ list_poll.out # Ready(None)
    /\ Woken(list_poll, list_poll.response)
    /\ LET self == ObjectListStream(objects, next_index, pending_request)
       IN  \E response \in (IF PollsRequest(self)
                            THEN request_poll(store, pending_request[1])
                            ELSE {<<"none">>}) :
             LET p == ObjectListStream_poll_next(self, response)
             IN  /\ objects' = p.self.objects
                 /\ next_index' = p.self.next_index
                 /\ pending_request' = p.self.pending_request
                 /\ requests' = IF p.wake /\ p.self.pending_request # None
                                THEN Append(requests,
                                            p.self.pending_request[1].start_after)
                                ELSE requests
                 /\ listed' = IF p.out \notin {Pending, Ready(None)}
                              THEN Append(listed, p.out[2][1]) ELSE listed
                 /\ list_poll' = [response |-> response, out |-> p.out,
                                  wake |-> p.wake]
    /\ UNCHANGED <<store, ext_vars, txt_vars, flatten_vars, map_vars, task>>

NextList == ListPollNext

SpecList == InitList /\ [][NextList]_vars

-----------------------------------------------------------------------------
(* The three streams under an executor that polls a task whenever it is *)
(* woken, with inner futures and streams that are ready in the end.      *)

\* the executor is given one stream: a mapping stream, a flattening stream
\* over at most MaxFairResults results, or an object stream
InitStreams ==
    \/ InitMap
    \/ InitFlatten /\ Len(source) <= MaxFairResults
    \/ InitList

\* a poll whose inner future or stream, if polled, is ready
MapProgress ==
    MapPollNext /\ map_poll'.inner # Pending /\ map_poll'.future # Pending

FlattenProgress == FlattenPollNext /\ flatten_poll'.inner # Pending

ListProgress == ListPollNext /\ list_poll'.response # Pending

NextStreams == MapPollNext \/ FlattenPollNext \/ ListPollNext

SpecStreamsFair ==
    /\ InitStreams /\ [][NextStreams]_vars
    /\ WF_vars(MapProgress) /\ WF_vars(FlattenProgress) /\ WF_vars(ListProgress)

-----------------------------------------------------------------------------
(* Properties.  Those of the transducer are stated on the last step        *)
(* (step: the state before, the input, num_chars before, the output, the   *)
(* state after) and on the result once extract_sentences has returned      *)
(* (pc = "done"); a run that panics returns nothing.                       *)

Returned == pc = "done"

IsCharStep == step.input[1] = "char"
IsStringStep == step.input[1] = "string"
IsFinishStep == step.input[1] = "finish"

FiveStates ==
    {"Initial", "Character", "Whitespace", "PeriodAnd", "WhitespacePeriodAnd"}

HasBreak(toks) == \E j \in 1..Len(toks) : toks[j].tt = "SentenceBreak"

IsString(tok) == tok.tt = "String"
IsOpaque(f) == f.kind # "Text"

\* the concatenation of the payloads of the tokens a sentence was built from
RECURSIVE ConcatUnits(_, _, _)
ConcatUnits(toks, units, j) ==
    IF j > Len(units) THEN <<>>
    ELSE toks[units[j]].v \o ConcatUnits(toks, units, j + 1)

\* the emitted sentences that hold token i
Holding(i) ==
    { n \in 1..Len(sentences) :
        \E j \in 1..Len(sentences[n].units) : sentences[n].units[j] = i }

\* feeding an opaque string emits, last, one String token with the whole
\* content, and no SentenceBreak
OpaqueStep ==
    IsStringStep =>
        /\ step.from[1] \in FiveStates
        /\ ~HasBreak(step.out)
        /\ Len(SelectSeq(step.out, IsString)) = 1
        /\ step.out[Len(step.out)] =
              StringToken(step.input[2], step.k, step.k + Len(step.input[2]))

\* the String tokens are the opaque fragments, in order, and every emitted
\* sentence is the concatenation of the tokens pushed into it
OpaqueTokens ==
    (Returned /\ block.type = "Text") =>
        /\ LET strs == SelectSeq(tokens, IsString)
               opaque == SelectSeq(block.fragments, IsOpaque)
           IN  /\ Len(strs) = Len(opaque)
               /\ \A j \in 1..Len(strs) : strs[j].v = opaque[j].s
        /\ \A n \in 1..Len(sentences) :
              sentences[n].text = ConcatUnits(tokens, sentences[n].units, 1)

\* C1 as claimed: every Code or Url fragment is delivered as one opaque
\* token, feeding it emits no SentenceBreak in any of the five states, and
\* its whole content lies contiguously in exactly one emitted sentence.
C1_EveryOpaqueInExactlyOneSentence ==
    /\ OpaqueStep
    /\ OpaqueTokens
    /\ (Returned /\ block.type = "Text") =>
          \A i \in 1..Len(tokens) :
              IsString(tokens[i]) => Cardinality(Holding(i)) = 1

\* C1 as amended: as claimed for a fragment with non-empty content; a
\* fragment with empty content (the Url of the link [](), alone in its
\* sentence) lies in at most one emitted sentence: its empty sentence is
\* dropped.
C1_OpaqueTokenNeverSplit ==
    /\ OpaqueStep
    /\ OpaqueTokens
    /\ (Returned /\ block.type = "Text") =>
          \A i \in 1..Len(tokens) :
              IsString(tokens[i]) =>
                  IF tokens[i].v # <<>>
                  THEN Cardinality(Holding(i)) = 1
                  ELSE Cardinality(Holding(i)) <= 1

\* a Code fragment holding a period, a blank and a terminator went through
\* and the block gave two sentences
C1_Witness ==
    /\ Returned /\ block.type = "Text"
    /\ Len(sentences) = 2
    /\ \E i \in 1..Len(tokens) :
          /\ IsString(tokens[i]) /\ tokens[i].v = <<".", " ", "?">>
          /\ Holding(i) = {2}

\* C2: extract_sentences of a Code block returns exactly one sentence, whose
\* text is the block's code and whose range is the block's range.
C2_CodeBlockIsOneSentence ==
    (Returned /\ block.type = "Code") =>
        Pairs(sentences) = <<<<block.code, block.range>>>>

C2_Witness ==
    /\ Returned /\ block.type = "Code"
    /\ block.language = <<"rust">> /\ block.range = Range(3, 16)
    /\ Len(block.code) > 1

Coalesced(fragments) ==
    \A j \in 1..(Len(fragments) - 1) :
        ~(is_text(fragments[j]) /\ is_text(fragments[j + 1]))

\* C4: no fragment list of a Paragraph frame of the stack, and none of an
\* emitted Text block, holds two adjacent Text fragments.
C4_ParagraphsCoalesced ==
    /\ \A j \in 1..Len(state_stack) :
          state_stack[j].ctx = "Paragraph" => Coalesced(state_stack[j].fragments)
    /\ \A j \in 1..Len(text_blocks) :
          text_blocks[j].type = "Text" => Coalesced(text_blocks[j].fragments)

\* Text(a), a link holding Text(a), the link closed: the text of the link
\* was merged into the Text fragment of the paragraph
C4_Witness ==
    /\ outcome = "running" /\ state_stack # <<>> /\ Top.ctx = "Paragraph"
    /\ link_start = 1 /\ pos > 3
    /\ Top.fragments = <<Fragment("Text", <<"a", "a">>, Range(0, 3))>>

\* the range of a block: of a Text block, from the start of its first
\* fragment to the end of its last
BlockRange(b) ==
    IF b.type = "Code" THEN b.range
    ELSE Range(b.fragments[1].range.start,
               b.fragments[Len(b.fragments)].range.end)

Inside(r, outer) == outer.start <= r.start /\ r.end <= outer.end

\* C5 as claimed: every sentence of every block the extractor produced has
\* its range inside the block's range.
C5_SentenceRangeInsideBlock ==
    \A j \in 1..Len(text_blocks) :
        LET res == extract_sentences(text_blocks[j])
        IN  \A n \in 1..Len(res.sentences) :
                Inside(res.sentences[n].range, BlockRange(text_blocks[j]))

\* C6 as claimed: within one block the ranges of the sentences, in output
\* order, are weakly increasing in start and in end.
C6_SentenceRangesIncrease ==
    \A j \in 1..Len(text_blocks) :
        LET res == extract_sentences(text_blocks[j])
        IN  \A n \in 1..(Len(res.sentences) - 1) :
                /\ res.sentences[n].range.start <= res.sentences[n + 1].range.start
                /\ res.sentences[n].range.end <= res.sentences[n + 1].range.end

\* C7 as claimed: in Whitespace(w0) an unambiguous terminator drops the
\* pending whitespace, emits the terminator and a SentenceBreak, and moves
\* to Initial.
C7_TerminatorAfterWhitespace ==
    (IsCharStep /\ step.from[1] = "Whitespace"
        /\ is_sentence_break(step.input[2])) =>
        /\ step.out = <<CharacterToken(step.input[2], step.k, step.k + 1),
                        SentenceBreakToken(step.k + 1, step.k + 1)>>
        /\ step.to = Initial

\* the terminator read at offset k is emitted and directly followed by a
\* SentenceBreak at [k+1, k+1), and the sentence is closed
EndsSentence ==
    /\ Len(step.out) >= 2
    /\ step.out[Len(step.out) - 1] =
          CharacterToken(step.input[2], step.k, step.k + 1)
    /\ step.out[Len(step.out)] = SentenceBreakToken(step.k + 1, step.k + 1)
    /\ step.to = Initial

\* in the result, a terminator followed by a SentenceBreak is the last
\* token of its sentence
TerminatorIsLast ==
    (Returned /\ block.type = "Text") =>
        \A i \in 1..(Len(tokens) - 1) :
            (/\ tokens[i].tt = "Character"
             /\ is_sentence_break(tokens[i].v[1])
             /\ tokens[i + 1].tt = "SentenceBreak") =>
                \E n \in 1..Len(sentences) :
                    /\ sentences[n].units # <<>>
                    /\ sentences[n].units[Len(sentences[n].units)] = i

C9_TentativePeriod ==
    /\ (IsCharStep /\ step.from = Character /\ step.input[2] = ".") =>
          /\ step.out = <<>>
          /\ step.to = PeriodAnd(step.k)
    /\ (step.from[1] = "PeriodAnd"
            /\ \/ IsFinishStep
               \/ IsCharStep /\ is_ascii_whitespace(step.input[2])) =>
          /\ step.out = <<CharacterToken(".", step.from[2], step.from[2] + 1),
                          SentenceBreakToken(step.from[2] + 1, step.from[2] + 1)>>
          /\ step.to = Initial
    /\ (step.from[1] = "PeriodAnd" /\ IsCharStep
            /\ ~is_ascii_whitespace(step.input[2])) =>
          /\ step.out = <<CharacterToken(".", step.from[2], step.from[2] + 1),
                          CharacterToken(step.input[2], step.k, step.k + 1)>>
          /\ step.to = Character
    /\ (step.from[1] = "PeriodAnd" /\ IsStringStep) =>
          /\ ~HasBreak(step.out)
          /\ step.to = Character

\* a held period rolled back by an unambiguous terminator
C9_Witness ==
    /\ step.from[1] = "PeriodAnd" /\ IsCharStep /\ step.input[2] = "?"
    /\ step.from[2] > 2

HelloWorldBlock == TextBlockText(<<Fragment("Text", HelloWorld, Range(0, 13))>>)

\* C10 as claimed: Text("Hello. World!", 0..13) gives ("Hello.", 0..6) and
\* ("World!", 7..13).
C10_HelloWorldFrom7 ==
    (Returned /\ block = HelloWorldBlock) =>
        Pairs(sentences) =
            << <<SubSeq(HelloWorld, 1, 6), Range(0, 6)>>,
               <<SubSeq(HelloWorld, 8, 13), Range(7, 13)>> >>

\* C10 as amended: it gives ("Hello.", 0..6) and ("World!", 6..13); the
\* second range starts at the SentenceBreak, right after the period.
C10_HelloWorldFrom6 ==
    (Returned /\ block = HelloWorldBlock) =>
        Pairs(sentences) =
            << <<SubSeq(HelloWorld, 1, 6), Range(0, 6)>>,
               <<SubSeq(HelloWorld, 8, 13), Range(6, 13)>> >>

C10_Witness == Returned /\ block = HelloWorldBlock /\ Len(sentences) = 2

SeeEgFooBlock == TextBlockText(<<Fragment("Text", SeeEgFoo, Range(0, 13))>>)

\* C11 as claimed: Text("See e.g. foo.", 0..13) gives exactly one sentence,
\* which ends at the final period.
C11_SeeEgFooOneSentence ==
    (Returned /\ block = SeeEgFooBlock) =>
        /\ Len(sentences) = 1
        /\ sentences[1].text[Len(sentences[1].text)] = "."
        /\ sentences[1].range.end = 13

\* C11 as amended: it gives the two sentences ("See e.g.", 0..8) and
\* ("foo.", 8..13): the first period of "e.g." is followed by "g" and is
\* rolled back, the second is followed by a blank and ends the sentence.
C11_SeeEgFooTwoSentences ==
    (Returned /\ block = SeeEgFooBlock) =>
        Pairs(sentences) =
            << <<SubSeq(SeeEgFoo, 1, 8), Range(0, 8)>>,
               <<SubSeq(SeeEgFoo, 10, 13), Range(8, 13)>> >>

C11_Witness ==
    /\ Returned /\ block = SeeEgFooBlock
    /\ Len(tokens) = 14 /\ Len(SelectSeq(tokens, IsString)) = 0

IsProcessEvent == call.op = "process_event"
IsFinish == call.op = "finish"

\* C12: finish returns the collected blocks if and only if the stack is
\* exactly one Blank frame, and InvalidContext with any other stack.
C12_FinishNeedsOneBlank ==
    /\ outcome = "running" =>
          finish(TheExtractor) =
              IF state_stack = <<Blank>> THEN "Ok" ELSE "InvalidContext"
    /\ IsFinish =>
          /\ outcome = IF call.stack = <<Blank>> THEN "Ok" ELSE "InvalidContext"
          /\ text_blocks = call.blocks

\* finish called with an unclosed block quote: a Blank below the top Blank
C12_Witness ==
    /\ IsFinish /\ call.stack = <<Blank, Blank>> /\ outcome = "InvalidContext"
    /\ text_blocks # <<>>

\* the extractor as it was before the last call
Before == Extractor(call.stack, call.blocks, "")

\* the error of the last process_event, "" when it succeeded
CallErr == process_event(Before, call.event, call.range).err

\* C13: extract_text_blocks stops at the first event that fails: the result
\* is that error without any block, and no event is processed after it.
C13_StopsAtFirstFailure ==
    /\ []((IsProcessEvent /\ CallErr # "") =>
            /\ outcome = CallErr
            /\ extract_text_blocks_result = <<"Err", CallErr>>)
    /\ [][outcome = "running"]_vars

\* an event failed after a block had been collected
C13_Witness ==
    /\ IsProcessEvent /\ CallErr = "InvalidContext"
    /\ call.blocks # <<>> /\ nevents < MaxEvents
    /\ extract_text_blocks_result = <<"Err", "InvalidContext">>

IsStart(event, what) == event.tag = "Start" /\ event.what = what
IsEnd(event, what) == event.tag = "End" /\ event.what = what

\* the events legal for a context
Legal(state, event) ==
    CASE state.ctx = "Blank" ->
            \/ \E w \in {"Paragraph", "CodeBlock", "BlockQuote", "List", "Item"} :
                  IsStart(event, w)
            \/ \E w \in {"BlockQuote", "List"} : IsEnd(event, w)
      [] state.ctx = "Paragraph" ->
            \/ event.tag \in {"Text", "Code", "Html", "SoftBreak", "HardBreak"}
            \/ \E w \in {"Link", "Strikethrough", "Strong", "Emphasis"} :
                  IsStart(event, w)
            \/ \E w \in {"Strong", "Emphasis"} : IsEnd(event, w)
            \/ IsEnd(event, state.paragraph_type)
      [] state.ctx = "CodeBlock" ->
            event.tag = "Text" \/ IsEnd(event, "CodeBlock")
      [] state.ctx = "Link" ->
            event.tag \in {"Text", "Code"} \/ IsEnd(event, "Link")
      [] state.ctx = "Strikethrough" ->
            event.tag \in {"Text", "Code"} \/ IsEnd(event, "Strikethrough")

\* the frame that handled the last process_event
CallTop == call.stack[Len(call.stack)]

HasCallTop == IsProcessEvent /\ call.stack # <<>>

\* C14: an event that is not legal for the context on top of the stack
\* makes process_event return InvalidContext, and the call leaves the
\* emitted blocks as they were.
C14_IllegalEventIsInvalidContext ==
    (HasCallTop /\ ~Legal(CallTop, call.event)) =>
        /\ CallErr = "InvalidContext"
        /\ outcome = "InvalidContext"
        /\ text_blocks = call.blocks

\* raw Html inside a link, after a block was emitted
C14_Witness ==
    /\ HasCallTop /\ CallTop.ctx = "Link" /\ call.event.tag = "Html"
    /\ outcome = "InvalidContext" /\ text_blocks # <<>>

IsContainerEnd(event) == IsEnd(event, "BlockQuote") \/ IsEnd(event, "List")

\* the stack without its top frame
Popped(stack) == SubSeq(stack, 1, Len(stack) - 1)

\* C15 as claimed: End(BlockQuote) or End(List) arriving at the root Blank
\* frame, with nothing open, is rejected with InvalidContext by the call
\* that processes it, and no accepted event pops the root Blank frame.
C15_UnmatchedEndRejected ==
    /\ (IsProcessEvent /\ call.stack = <<Blank>> /\ IsContainerEnd(call.event)) =>
          outcome = "InvalidContext"
    /\ (IsProcessEvent /\ CallErr = "") => state_stack # <<>>

\* C15 as amended: End(BlockQuote) and End(List) are accepted in every
\* Blank context, whatever opened it and at the root too: they pop the frame
\* and emit nothing.  The empty stack left by popping the root frame is
\* reported by the next call, process_event or finish, as InvalidContext.
\* The end of a paragraph or item is accepted only for its own kind.
C15_ContainerEndPopsAnyBlank ==
    /\ (HasCallTop /\ CallTop.ctx = "Blank" /\ IsContainerEnd(call.event)) =>
          /\ outcome = "running"
          /\ state_stack = Popped(call.stack)
          /\ text_blocks = call.blocks
    /\ (call.op # "none" /\ call.stack = <<>>) => outcome = "InvalidContext"
    /\ (HasCallTop /\ CallTop.ctx = "Paragraph"
            /\ (IsEnd(call.event, "Paragraph") \/ IsEnd(call.event, "Item"))) =>
          (outcome = "running" <=> call.event.what = CallTop.paragraph_type)

\* End(List) at the root frame, accepted: the stack is empty
C15_Witness ==
    /\ IsProcessEvent /\ call.stack = <<Blank>> /\ IsEnd(call.event, "List")
    /\ state_stack = <<>> /\ outcome = "running"

\* C16 as claimed: End(CodeBlock) while no Text has set the code fails
\* with InvalidData.
C16_EmptyCodeBlockIsInvalidData ==
    (HasCallTop /\ CallTop.ctx = "CodeBlock" /\ CallTop.code = <<>>
        /\ IsEnd(call.event, "CodeBlock")) =>
        outcome = "InvalidData"

\* C16 as amended: it fails with InvalidContext, and no block is emitted.
C16_EmptyCodeBlockIsInvalidContext ==
    (HasCallTop /\ CallTop.ctx = "CodeBlock" /\ CallTop.code = <<>>
        /\ IsEnd(call.event, "CodeBlock")) =>
        /\ outcome = "InvalidContext"
        /\ text_blocks = call.blocks

\* a fenced code block closed right after its start
C16_Witness ==
    /\ HasCallTop /\ CallTop.ctx = "CodeBlock" /\ CallTop.code = <<>>
    /\ CallTop.language # <<>>
    /\ IsEnd(call.event, "CodeBlock") /\ outcome # "running"

\* C17 as claimed: the events of the table and task-list extensions are
\* recognized: Start(Table) at block level and a task-list marker inside an
\* Item do not fail with InvalidContext.
C17_ExtensionEventsRecognized ==
    (HasCallTop
        /\ \/ CallTop.ctx = "Blank" /\ IsStart(call.event, "Table")
           \/ /\ CallTop.ctx = "Paragraph" /\ CallTop.paragraph_type = "Item"
              /\ call.event.tag = "TaskListMarker") =>
        outcome # "InvalidContext"

InParagraph == HasCallTop /\ CallTop.ctx = "Paragraph"

\* the stack after the Paragraph frame of the last call was changed to
\* hold the given fragments
ParagraphWith(fragments) ==
    Append(Popped(call.stack), Paragraph(CallTop.paragraph_type, fragments))

\* the fragments of a paragraph after a Text event (s, r)
WithText(fs, s, r) ==
    IF fs # <<>> /\ fs[Len(fs)].kind = "Text"
    THEN Append(SubSeq(fs, 1, Len(fs) - 1),
                Fragment("Text", fs[Len(fs)].s \o s,
                         Range(fs[Len(fs)].range.start, r.end)))
    ELSE Append(fs, Fragment("Text", s, r))

IsDecoration(event) ==
    event.tag \in {"Start", "End"} /\ event.what \in {"Strong", "Emphasis"}

\* C18: in a Paragraph a Text event is appended to a last Text fragment
\* (contents concatenated, start kept, end set to that of the event) and is
\* pushed as a new fragment otherwise; Strong and Emphasis events change
\* neither the stack nor the fragments; a paragraph starts with no fragment
\* and its end emits one Text block with exactly the fragments collected.
C18_TextIsCoalesced ==
    /\ (InParagraph /\ call.event.tag = "Text") =>
          /\ outcome = "running" /\ text_blocks = call.blocks
          /\ state_stack =
                ParagraphWith(WithText(CallTop.fragments, call.event.s, call.range))
    /\ (InParagraph /\ IsDecoration(call.event)) =>
          /\ outcome = "running" /\ text_blocks = call.blocks
          /\ state_stack = call.stack
    /\ (HasCallTop /\ CallTop.ctx = "Blank" /\ IsStart(call.event, "Paragraph")) =>
          state_stack = Append(call.stack, Paragraph("Paragraph", <<>>))
    /\ (InParagraph /\ CallTop.paragraph_type = "Paragraph"
            /\ IsEnd(call.event, "Paragraph")) =>
          /\ state_stack = Popped(call.stack)
          /\ text_blocks = Append(call.blocks, TextBlockText(CallTop.fragments))

\* "a" at 0..1, a decoration mark of two bytes, "a" at 3..4: one fragment
\* from 0 to 4
C18_Witness ==
    /\ InParagraph /\ call.event.tag = "Text" /\ call.range = Range(3, 4)
    /\ Top.fragments = <<Fragment("Text", <<"a", "a">>, Range(0, 4))>>

UnnamedPanickedAt ==
    TextBlockText(<<Fragment("Code", Unnamed, Range(0, 9)),
                    Fragment("Text", PanickedAt, Range(9, 21))>>)

\* C19: in a Paragraph an inline Code or raw Html event pushes a new Code
\* fragment with its content and range, a Text event after it starts a new
\* Text fragment, and Html("<unnamed>", 0..9), Text(" panicked at", 9..21)
\* give the block [Code 0..9, Text 9..21] and the one sentence
\* ("<unnamed> panicked at", 0..21).
C19_CodeIsItsOwnFragment ==
    /\ (InParagraph /\ call.event.tag \in {"Code", "Html"}) =>
          /\ outcome = "running" /\ text_blocks = call.blocks
          /\ state_stack =
                ParagraphWith(Append(CallTop.fragments,
                                     Fragment("Code", call.event.s, call.range)))
    /\ (InParagraph /\ call.event.tag = "Text" /\ CallTop.fragments # <<>>
            /\ CallTop.fragments[Len(CallTop.fragments)].kind = "Code") =>
          Top.fragments =
              Append(CallTop.fragments,
                     Fragment("Text", call.event.s, call.range))
    /\ (InParagraph /\ nevents = 4 /\ call.blocks = <<>>
            /\ IsEnd(call.event, "Paragraph") /\ outcome = "running"
            /\ Len(CallTop.fragments) = 2
            /\ CallTop.fragments[1].s = Unnamed
            /\ CallTop.fragments[2].s = PanickedAt) =>
          /\ text_blocks = <<UnnamedPanickedAt>>
          /\ Pairs(extract_sentences(text_blocks[1]).sentences) =
                << <<Unnamed \o PanickedAt, Range(0, 21)>> >>

C19_Witness ==
    /\ IsProcessEvent /\ IsEnd(call.event, "Paragraph") /\ outcome = "running"
    /\ text_blocks = <<UnnamedPanickedAt>>

InCodeBlock == HasCallTop /\ CallTop.ctx = "CodeBlock"

\* C20: Start(CodeBlock(kind)) with range R, one Text(body) and
\* End(CodeBlock) give exactly one Code block: its language is the info
\* string of a fenced block and none for an indented one, its code is the
\* body, and its range is R, the range of the start event.
C20_CodeBlockCarriesStartRange ==
    /\ (HasCallTop /\ CallTop.ctx = "Blank" /\ IsStart(call.event, "CodeBlock")) =>
          /\ outcome = "running" /\ text_blocks = call.blocks
          /\ state_stack =
                Append(call.stack,
                       CodeBlock(IF call.event.kind = Indented THEN <<>>
                                 ELSE <<call.event.kind[2]>>,
                                 <<>>, call.range))
    /\ (InCodeBlock /\ call.event.tag = "Text" /\ CallTop.code = <<>>) =>
          /\ outcome = "running" /\ text_blocks = call.blocks
          /\ state_stack =
                Append(Popped(call.stack),
                       CodeBlock(CallTop.language, <<call.event.s>>,
                                 CallTop.range))
    /\ (InCodeBlock /\ IsEnd(call.event, "CodeBlock") /\ CallTop.code # <<>>) =>
          /\ outcome = "running"
          /\ state_stack = Popped(call.stack)
          /\ text_blocks =
                Append(call.blocks,
                       TextBlockCode(CallTop.language, CallTop.code[1],
                                     CallTop.range))

\* a fenced rust block after a paragraph: ```rust at 0, its body at 8
C20_Witness ==
    /\ InCodeBlock /\ IsEnd(call.event, "CodeBlock") /\ nevents = 3
    /\ text_blocks =
          <<TextBlockCode(<<"rust">>, <<"a">>, Range(0, 13))>>

IsNotWhitespace(ch) == ~is_ascii_whitespace(ch)

\* a string without its ASCII whitespace
Strip(s) == SelectSeq(s, IsNotWhitespace)

\* the contents of the fragments, in order
RECURSIVE ConcatContents(_, _)
ConcatContents(fragments, j) ==
    IF j > Len(fragments) THEN <<>>
    ELSE fragments[j].s \o ConcatContents(fragments, j + 1)

\* the texts of the sentences, in order
RECURSIVE ConcatTexts(_, _)
ConcatTexts(sents, n) ==
    IF n > Len(sents) THEN <<>>
    ELSE sents[n].text \o ConcatTexts(sents, n + 1)

\* C21: for a text block on which extract_sentences returns, the sentence
\* texts concatenated in order are, ASCII whitespace deleted, the fragment
\* contents concatenated in order, ASCII whitespace deleted; the sentences
\* dropped by the filter carry no content.
C21_ContentPreserved ==
    (Returned /\ block.type = "Text") =>
        /\ Strip(ConcatTexts(sentences, 1)) =
              Strip(ConcatContents(block.fragments, 1))
        /\ ConcatTexts(fold_tokens(tokens, 1, <<>>), 1) =
              ConcatTexts(sentences, 1)

\* a blank, a held period and an opaque string: "a .", then a code, in two
\* fragments; the blank and the period are kept in front of the code
C21_Witness ==
    /\ Returned /\ block.type = "Text" /\ Len(block.fragments) = 2
    /\ block.fragments[1].s = <<"a", " ", ".">>
    /\ block.fragments[2].kind = "Code"
    /\ Len(sentences) = 1
    /\ sentences[1].text = <<"a", " ", ".", ".", " ", "?">>

\* C24: a HardBreak in a Paragraph appends the fragments collected so far
\* as one Text block, even when there are none, and leaves on top an empty
\* Paragraph of the same kind at the same depth; the end of the paragraph
\* or item emits the last block, so the blocks of a paragraph come out in
\* document order, one more than its hard breaks.
C24_HardBreakSplitsParagraph ==
    /\ (InParagraph /\ call.event.tag = "HardBreak") =>
          /\ outcome = "running"
          /\ text_blocks = Append(call.blocks, TextBlockText(CallTop.fragments))
          /\ state_stack = ParagraphWith(<<>>)
          /\ Len(state_stack) = Len(call.stack)
    /\ (InParagraph /\ IsEnd(call.event, CallTop.paragraph_type)) =>
          /\ outcome = "running"
          /\ text_blocks = Append(call.blocks, TextBlockText(CallTop.fragments))
          /\ state_stack = Popped(call.stack)

\* an item with a text and two hard breaks in a row: the second break
\* emits a block without fragments
C24_Witness ==
    /\ InParagraph /\ call.event.tag = "HardBreak"
    /\ CallTop.paragraph_type = "Item" /\ CallTop.fragments = <<>>
    /\ Len(text_blocks) = 2 /\ text_blocks[1].fragments # <<>>
    /\ text_blocks[2] = TextBlockText(<<>>)

InLink == HasCallTop /\ CallTop.ctx = "Link"

\* the frame below the one that handled the last call
CallBelow == call.stack[Len(call.stack) - 1]

\* the fragments of a paragraph after the fragments of a link, from the
\* j-th on, were delivered to it one by one
RECURSIVE Deliver(_, _, _)
Deliver(fs, delivered, j) ==
    IF j > Len(delivered) THEN fs
    ELSE LET f == delivered[j]
         IN  Deliver(IF f.kind = "Text" THEN WithText(fs, f.s, f.range)
                     ELSE Append(fs, f),
                     delivered, j + 1)

\* the stack after End(Link) delivered the given fragments to the paragraph
\* below the link
AfterLink(delivered) ==
    Append(Popped(Popped(call.stack)),
           Paragraph(CallBelow.paragraph_type,
                     Deliver(CallBelow.fragments, delivered, 1)))

\* C25: a Link frame lies on a Paragraph frame; Text and Code events in the
\* link change the Link frame only; End(Link) delivers the fragments of the
\* link to that paragraph in collection order, a Text merging into a last
\* Text fragment and extending its range end, removes the Link frame and
\* leaves the Paragraph frame on top.
C25_LinkDeliversOnEnd ==
    /\ \A j \in 1..Len(state_stack) :
          state_stack[j].ctx = "Link" =>
              j > 1 /\ state_stack[j - 1].ctx = "Paragraph"
    /\ (InLink /\ call.event.tag \in {"Text", "Code"}) =>
          /\ outcome = "running" /\ text_blocks = call.blocks
          /\ state_stack =
                Append(Popped(call.stack),
                       Link(Append(CallTop.fragments,
                                   Fragment(call.event.tag, call.event.s,
                                            call.range))))
    /\ (InLink /\ IsEnd(call.event, "Link") /\ CallTop.fragments # <<>>) =>
          /\ outcome = "running" /\ text_blocks = call.blocks
          /\ state_stack = AfterLink(CallTop.fragments)

\* "a", then a link holding "a": the text of the link merged into the
\* fragment of the paragraph, whose range now ends with the link's text
C25_Witness ==
    /\ InLink /\ IsEnd(call.event, "Link") /\ Len(CallTop.fragments) = 1
    /\ CallBelow.fragments = <<Fragment("Text", <<"a">>, Range(0, 1))>>
    /\ Top = Paragraph("Paragraph", <<Fragment("Text", <<"a", "a">>, Range(0, 3))>>)

\* the fragment that stands for a link without content
Synthesized ==
    IF call.event.title # <<>>
    THEN Fragment("Text", call.event.title, call.range)
    ELSE Fragment("Url", call.event.url, call.range)

\* C26: End(Link) of a link that collected no fragment delivers exactly
\* one fragment with the range of the End(Link) event, Text(title) when the
\* title is not empty and Url(url) otherwise; a link that collected
\* fragments delivers these and neither its url nor its title.
C26_EmptyLinkIsTitleOrUrl ==
    /\ (InLink /\ IsEnd(call.event, "Link") /\ CallTop.fragments = <<>>) =>
          /\ outcome = "running" /\ text_blocks = call.blocks
          /\ state_stack = AfterLink(<<Synthesized>>)
    /\ (InLink /\ IsEnd(call.event, "Link") /\ CallTop.fragments # <<>>) =>
          state_stack = AfterLink(CallTop.fragments)

\* [](u "t") at the start of a paragraph: the title stands for the link
C26_Witness ==
    /\ InLink /\ IsEnd(call.event, "Link") /\ CallTop.fragments = <<>>
    /\ call.event.url = <<"u">> /\ call.event.title = <<"t">>
    /\ Top.fragments = <<Fragment("Text", <<"t">>, call.range)>>
    /\ call.range.start = 0 /\ call.range.end = pos

InStrikethrough == HasCallTop /\ CallTop.ctx = "Strikethrough"

\* C27: a Strikethrough frame lies on the Paragraph frame that met
\* Start(Strikethrough), which is left as it was; Text and Code in the
\* strikethrough change nothing; End(Strikethrough) removes the frame, so
\* that Paragraph frame is on top again with the fragments it had, and no
\* block was emitted in between.
C27_StrikethroughAbsorbs ==
    /\ \A j \in 1..Len(state_stack) :
          state_stack[j].ctx = "Strikethrough" =>
              j > 1 /\ state_stack[j - 1].ctx = "Paragraph"
    /\ (InParagraph /\ IsStart(call.event, "Strikethrough")) =>
          /\ outcome = "running" /\ text_blocks = call.blocks
          /\ state_stack = Append(call.stack, Strikethrough)
    /\ (InStrikethrough /\ call.event.tag \in {"Text", "Code"}) =>
          /\ outcome = "running" /\ text_blocks = call.blocks
          /\ state_stack = call.stack
    /\ (InStrikethrough /\ IsEnd(call.event, "Strikethrough")) =>
          /\ outcome = "running" /\ text_blocks = call.blocks
          /\ state_stack = Popped(call.stack)
          /\ Top.ctx = "Paragraph"

\* "a", the opening mark, a text, the closing mark: six bytes read, and
\* the paragraph holds "a" only
C27_Witness ==
    /\ InStrikethrough /\ IsEnd(call.event, "Strikethrough")
    /\ nevents = 5 /\ pos = 6 /\ text_blocks = <<>>
    /\ Top = Paragraph("Paragraph", <<Fragment("Text", <<"a">>, Range(0, 1))>>)

\* the fragments of a paragraph after a SoftBreak
WithLineBreak(fs) ==
    IF fs # <<>> /\ fs[Len(fs)].kind = "Text"
    THEN Append(SubSeq(fs, 1, Len(fs) - 1),
                Fragment("Text", fs[Len(fs)].s \o <<"\n">>, fs[Len(fs)].range))
    ELSE fs

\* C28: a SoftBreak in a Paragraph appends one line feed to the content of
\* the last fragment if and only if it is Text, its range and the other
\* fragments unchanged; with a last fragment Code or Url, or with no
\* fragment, the paragraph is left as it was.
C28_SoftBreakAppendsLineFeed ==
    (InParagraph /\ call.event.tag = "SoftBreak") =>
        /\ outcome = "running" /\ text_blocks = call.blocks
        /\ state_stack = ParagraphWith(WithLineBreak(CallTop.fragments))

\* a code, "a", and a line break: the break is added to "a", whose range
\* still ends before the break
C28_Witness ==
    /\ InParagraph /\ call.event.tag = "SoftBreak"
    /\ Len(Top.fragments) = 2 /\ Top.fragments[1].kind = "Code"
    /\ Top.fragments[2] = Fragment("Text", <<"a", "\n">>, Range(3, 4))
    /\ pos = 5

\* C29: in a CodeBlock a Text event is accepted only while no code is set:
\* a second Text fails with InvalidContext, and the code of a frame or of an
\* emitted block is the string of one Text event.
C29_SecondCodeTextRejected ==
    /\ (InCodeBlock /\ call.event.tag = "Text" /\ CallTop.code # <<>>) =>
          /\ outcome = "InvalidContext"
          /\ text_blocks = call.blocks
    /\ (InCodeBlock /\ call.event.tag = "Text" /\ CallTop.code = <<>>) =>
          outcome = "running"
    /\ \A j \in 1..Len(state_stack) :
          (state_stack[j].ctx = "CodeBlock" /\ state_stack[j].code # <<>>) =>
              state_stack[j].code[1] \in TextStrings
    /\ \A j \in 1..Len(text_blocks) :
          text_blocks[j].type = "Code" => text_blocks[j].code \in TextStrings

\* a second Text in a fenced block
C29_Witness ==
    /\ InCodeBlock /\ call.event.tag = "Text" /\ CallTop.code = <<<<"a">>>>
    /\ CallTop.language = <<"rust">> /\ outcome = "InvalidContext"

\* a Character token that carries whitespace
IsBlankToken(tok) == tok.tt = "Character" /\ is_ascii_whitespace(tok.v[1])

IsCharToken(tok) == tok.tt = "Character" /\ ~is_ascii_whitespace(tok.v[1])

\* the Text fragments of the block that cover offset p
TextFragmentsAt(p) ==
    { j \in 1..Len(block.fragments) :
        /\ block.fragments[j].kind = "Text"
        /\ block.fragments[j].range.start <= p
        /\ p < block.fragments[j].range.start + Len(block.fragments[j].s) }

\* the character of fragment j at offset p
CharIn(j, p) == block.fragments[j].s[p - block.fragments[j].range.start + 1]

BlankAt(p) == \E j \in TextFragmentsAt(p) : is_ascii_whitespace(CharIn(j, p))

NonBlankAt(p) == \E j \in TextFragmentsAt(p) : ~is_ascii_whitespace(CharIn(j, p))

\* what C30 says of a whitespace token, unit j of the units u of a sentence
CollapsedBlank(u, j) ==
    LET t == tokens[u[j]]
    IN  /\ t.v = <<" ">>
        /\ j > 1
        /\ ~IsBlankToken(tokens[u[j - 1]])
        /\ BlankAt(t.r.start)
        /\ ~BlankAt(t.r.start - 1)
        /\ t.r.start < t.r.end
        /\ \A p \in t.r.start..(t.r.end - 1) : ~NonBlankAt(p)
        /\ j < Len(u) => tokens[u[j + 1]].r.start = t.r.end

\* units j and j + 1 of u are characters of one Text fragment
NeighbourChars(u, j) ==
    /\ j < Len(u)
    /\ IsCharToken(tokens[u[j]])
    /\ IsCharToken(tokens[u[j + 1]])
    /\ TextFragmentsAt(tokens[u[j]].r.start) # {}
    /\ TextFragmentsAt(tokens[u[j]].r.start) =
          TextFragmentsAt(tokens[u[j + 1]].r.start)

\* the period of token index i ended its sentence
CommittedPeriod(i) ==
    /\ tokens[i].v = <<".">>
    /\ i < Len(tokens)
    /\ tokens[i + 1].tt = "SentenceBreak"

OkItems(iterable) == [i \in 1..Len(iterable) |-> Ok(iterable[i])]

\* what a sequence of results flattens to
RECURSIVE Flattened(_)
Flattened(results) ==
    IF results = <<>> THEN <<>>
    ELSE LET result == Head(results)
         IN  (IF result[1] = "Ok" THEN OkItems(result[2]) ELSE <<result>>)
                 \o Flattened(Tail(results))

\* the items still to come from the current iterable
Remaining == IF iterator = None THEN <<>> ELSE OkItems(iterator[1])

\* C22: the items yielded so far, those left in the current iterable and
\* those of the results not yet produced are together, in this order, what
\* the underlying stream flattens to (every item of an Ok in order, one Err
\* for an Err, nothing for an empty iterable); the stream ends exactly on a
\* poll that finds no current iterable and the underlying stream ended, so
\* that nothing is missing at the end; and a Pending that did not wake the
\* task itself is a Pending of the underlying stream.
C22_FlattenedInOrder ==
    /\ items \o Remaining \o Flattened(stream) = Flattened(source)
    /\ flatten_poll.out = Ready(None) <=>
          (flatten_poll.iterator = None /\ flatten_poll.inner = Ready(None))
    /\ flatten_poll.out = Ready(None) => items = Flattened(source)
    /\ (flatten_poll.out = Pending /\ ~flatten_poll.wake) =>
          flatten_poll.inner = Pending

\* two items, an error and an empty iterable, flattened to the end
C22_Witness ==
    /\ source = <<Ok(<<"x", "y">>), Err("e"), Ok(<<>>)>>
    /\ flatten_poll.out = Ready(None)
    /\ items = <<Ok("x"), Ok("y"), Err("e")>>

\* the objects of a sequence that have a key
Keyed(objs) == SelectSeq(objs, LAMBDA o : o.key # None)

IsPrefix(s, t) == Len(s) <= Len(t) /\ s = SubSeq(t, 1, Len(s))

\* the object stream ended and no request failed
ListedAll == list_poll.out = Ready(None) /\ list_poll.response = <<"none">>

\* C23: the objects yielded are at every moment the first keyed objects of
\* the store, in listing order and each once; and when the stream ends with
\* no request failed, they are all the keyed objects of the store and the
\* last page received was empty.
C23_ListingComplete ==
    /\ IsPrefix(listed, Keyed(store))
    /\ ListedAll => (listed = Keyed(store) /\ objects = <<>>)

\* C31: in WhitespacePeriodAnd(w0, p0) the period commits on whitespace and
\* at the end of the block, and then only the period [p0, p0+1) and a
\* SentenceBreak are emitted, the whitespace dropped; any other character
\* and any opaque string roll the period back, and then one ' ' with range
\* [w0, p0) is emitted, then the period, then the character or the string.
C31_WhitespaceBeforePeriod ==
    step.from[1] = "WhitespacePeriodAnd" =>
        LET w0 == step.from[2]
            p0 == step.from[3]
        IN  /\ w0 < p0
            /\ (IsFinishStep \/ (IsCharStep /\ is_ascii_whitespace(step.input[2]))) =>
                  /\ step.out = <<CharacterToken(".", p0, p0 + 1),
                                  SentenceBreakToken(p0 + 1, p0 + 1)>>
                  /\ step.to = Initial
            /\ (IsCharStep /\ ~is_ascii_whitespace(step.input[2])) =>
                  /\ step.out = <<CharacterToken(" ", w0, p0),
                                  CharacterToken(".", p0, p0 + 1),
                                  CharacterToken(step.input[2], step.k, step.k + 1)>>
                  /\ step.to = Character
            /\ IsStringStep =>
                  /\ Len(step.out) = 3
                  /\ step.out[1] = CharacterToken(" ", w0, p0)
                  /\ step.out[2] = CharacterToken(".", p0, p0 + 1)
                  /\ IsString(step.out[3])
                  /\ step.to = Character

\* "a", blank, period, blank: the period commits and the first blank is dropped
C31_Witness ==
    /\ step.from = WhitespacePeriodAnd(1, 2)
    /\ IsCharStep /\ step.input[2] = " "
    /\ tokens = <<CharacterToken("a", 0, 1), CharacterToken(".", 2, 3),
                  SentenceBreakToken(3, 3)>>

\* the pending units of a state, as its "other character" branch emits them
PendingUnits(state) ==
    CASE state[1] \in {"Initial", "Character"} -> <<>>
      [] state[1] = "Whitespace" -> <<CharacterToken(" ", state[2], step.k)>>
      [] state[1] = "PeriodAnd" ->
            <<CharacterToken(".", state[2], state[2] + 1)>>
      [] state[1] = "WhitespacePeriodAnd" ->
            <<CharacterToken(" ", state[2], state[3]),
              CharacterToken(".", state[3], state[3] + 1)>>

\* C32: an opaque string S fed at offset k, the start of its fragment,
\* emits in every state the pending units of the state and then one String
\* token holding S with range [k, k + n), n the number of characters of S,
\* and leaves the state Character.
C32_OpaqueStringStep ==
    IsStringStep =>
        LET S == step.input[2]
        IN  /\ \E j \in 1..Len(block.fragments) :
                  /\ IsOpaque(block.fragments[j])
                  /\ block.fragments[j].s = S
                  /\ block.fragments[j].range.start = step.k
            /\ step.from[1] \in FiveStates
            /\ step.out = PendingUnits(step.from)
                              \o <<StringToken(S, step.k, step.k + Len(S))>>
            /\ step.to = Character

\* a code span of two characters and four bytes fed while whitespace is
\* pending
C32_Witness ==
    /\ IsStringStep /\ step.from = Whitespace(1)
    /\ step.input[2] = WideCode
    /\ step.out = <<CharacterToken(" ", 1, 2), StringToken(WideCode, 2, 4)>>

\* C33: the step at the end of a text block is taken at k, the end of the
\* range of the last fragment; it emits nothing from Initial and Character,
\* one ' ' with range [w0, k) from Whitespace(w0), which the last sentence
\* then ends with, and the period [p0, p0+1) followed by a SentenceBreak
\* from PeriodAnd(p0) and WhitespacePeriodAnd(_, p0).
C33_FinishByState ==
    IsFinishStep =>
        /\ step.k = last_end(block.fragments)
        /\ step.to = Initial
        /\ step.from[1] \in {"Initial", "Character"} => step.out = <<>>
        /\ step.from[1] = "Whitespace" =>
              /\ step.out = <<CharacterToken(" ", step.from[2], step.k)>>
              /\ Returned =>
                    /\ sentences # <<>>
                    /\ LET last == sentences[Len(sentences)]
                       IN  /\ last.text[Len(last.text)] = " "
                           /\ tokens[last.units[Len(last.units)]] =
                                  CharacterToken(" ", step.from[2], step.k)
        /\ step.from[1] = "PeriodAnd" =>
              step.out = <<CharacterToken(".", step.from[2], step.from[2] + 1),
                           SentenceBreakToken(step.from[2] + 1, step.from[2] + 1)>>
        /\ step.from[1] = "WhitespacePeriodAnd" =>
              step.out = <<CharacterToken(".", step.from[3], step.from[3] + 1),
                           SentenceBreakToken(step.from[3] + 1, step.from[3] + 1)>>

\* "a" and two blanks: the only sentence is "a" and one blank, the token of
\* the blank reaching to the end of the fragment
C33_Witness ==
    /\ Returned /\ IsFinishStep /\ step.from = Whitespace(3)
    /\ block = TextBlockText(<<Fragment("Text", <<"a", " ", " ">>, Range(2, 5))>>)
    /\ step.out = <<CharacterToken(" ", 3, 5)>>
    /\ Pairs(sentences) = << <<(<<"a", " ">>), Range(2, 5)>> >>

\* the events so far were all accepted
Accepted == outcome \in {"running", "Ok"}

\* frame i of the stack sits directly on a frame of context ctx
SitsOn(i, ctx) == i > 1 /\ state_stack[i - 1].ctx = ctx

\* C34: while the events are accepted, every Paragraph and CodeBlock frame
\* sits directly on a Blank frame, every Link and Strikethrough frame
\* directly on a Paragraph frame, and CodeBlock, Link and Strikethrough
\* frames are the top of the stack; and an End(Link) received in a Link
\* context never fails.
C34_StackWellFormed ==
    /\ Accepted =>
          \A i \in 1..Len(state_stack) :
              /\ state_stack[i].ctx \in {"Paragraph", "CodeBlock"} =>
                    SitsOn(i, "Blank")
              /\ state_stack[i].ctx \in {"Link", "Strikethrough"} =>
                    SitsOn(i, "Paragraph")
              /\ state_stack[i].ctx \in {"CodeBlock", "Link", "Strikethrough"} =>
                    i = Len(state_stack)
    /\ (InLink /\ IsEnd(call.event, "Link")) => outcome = "running"

\* a link of two fragments closed inside a paragraph
C34_Witness ==
    /\ InLink /\ IsEnd(call.event, "Link")
    /\ Len(CallTop.fragments) = 2
    /\ outcome = "running"
    /\ Len(state_stack) = 2
    /\ state_stack[2].ctx = "Paragraph"
    /\ Len(state_stack[2].fragments) = 2

\* C35 as claimed: extract_sentences never aborts: no step of the transducer
\* panics and the transducer is always in one of its five states.
C35_ExtractionTotal ==
    /\ pc # "panicked"
    /\ transducer # <<>> => transducer[1].state[1] \in FiveStates

\* the fragments are non-empty and their ranges increase without overlap
WellRanged(fragments) ==
    \A j \in 1..Len(fragments) :
        /\ fragments[j].s # <<>>
        /\ fragments[j].range.start < fragments[j].range.end
        /\ j < Len(fragments) =>
              fragments[j].range.end <= fragments[j + 1].range.start

\* C36 as claimed: in the result for a text block of non-empty fragments
\* with increasing, non-overlapping ranges, every sentence after the first
\* starts where the sentence before it ends, and no two sentences have the
\* same range.
C36_SentenceRangesChained ==
    (Returned /\ block.type = "Text" /\ WellRanged(block.fragments)) =>
        /\ \A n \in 1..(Len(sentences) - 1) :
              sentences[n + 1].range.start = sentences[n].range.end
        /\ \A m, n \in 1..Len(sentences) :
              m < n => sentences[m].range # sentences[n].range

\* character i of the Text fragment being segmented has just been read
JustRead(i) ==
    /\ pc = "fold" /\ transducer # <<>>
    /\ block.fragments[frag_idx].kind = "Text"
    /\ char_idx = i + 1

\* the number of periods directly before character i of s
RECURSIVE PeriodsBefore(_, _)
PeriodsBefore(s, i) ==
    IF i > 1 /\ s[i - 1] = "." THEN 1 + PeriodsBefore(s, i - 1) ELSE 0

\* not whitespace, not a period, not a terminator
IsOrdinary(ch) ==
    ~is_ascii_whitespace(ch) /\ ch # "." /\ ~is_sentence_break(ch)

\* C37: when the whitespace read in a Text fragment follows m >= 1 periods
\* that follow an ordinary character, the step ends the sentence (emits a
\* SentenceBreak) if and only if m is odd.
C37_OddPeriodRunEndsSentence ==
    \A i \in 1..(char_idx - 1) :
        JustRead(i) =>
            LET s == block.fragments[frag_idx].s
                m == PeriodsBefore(s, i)
            IN  (/\ is_ascii_whitespace(s[i])
                 /\ m >= 1 /\ i - m > 1
                 /\ IsOrdinary(s[i - m - 1])) =>
                    /\ IsCharStep /\ step.input[2] = s[i]
                    /\ HasBreak(step.out) <=> m % 2 = 1
                    /\ m % 2 = 1 => step.to = Initial
                    /\ m % 2 = 0 => step.to[1] = "Whitespace"

\* "a.. b": the blank after two periods does not end the sentence
C37_Witness ==
    /\ block = PeriodRun(2)
    /\ JustRead(4)
    /\ step.out = <<>> /\ step.to = Whitespace(3)
    /\ tokens = <<CharacterToken("a", 0, 1), CharacterToken(".", 1, 2),
                  CharacterToken(".", 2, 3)>>

\* the outputs of the mapping function for a sequence of items
MapAll(s) == [i \in 1..Len(s) |-> map_f(s[i])]

\* the output still to come from the pending future
PendingOutput == IF pending_map = None THEN <<>> ELSE <<map_f(pending_map[1])>>

\* C38: the outputs yielded, that of the pending future and those of the
\* items not yet produced are together, in this order, the outputs for the
\* items of the underlying stream, one each; the mapping function was called
\* once for each output yielded and once more when a future is pending;
\* while a future is pending the underlying stream is not polled; and the
\* stream ends only on a poll that finds no pending future and the underlying
\* stream ended.
C38_MapOneAtATime ==
    /\ mapped \o PendingOutput \o MapAll(map_stream) = MapAll(map_source)
    /\ MapAll(map_calls) = mapped \o PendingOutput
    /\ map_poll.pending # None => map_poll.inner = <<"none">>
    /\ map_poll.out = Ready(None) =>
          /\ map_poll.pending = None /\ map_poll.inner = Ready(None)
          /\ mapped = MapAll(map_source)

\* three items mapped to the end, one future at a time
C38_Witness ==
    /\ map_source = <<"x", "y", "x">>
    /\ map_poll.out = Ready(None)
    /\ mapped = <<map_f("x"), map_f("y"), map_f("x")>>
    /\ map_calls = map_source

IsSuffix(s, t) == Len(s) <= Len(t) /\ s = SubSeq(t, Len(t) - Len(s) + 1, Len(t))

\* the last poll found the pending request failed
RequestFailed == list_poll.response = Ready(Err("SdkError"))

\* the number of objects behind which the last request sent starts
StartOfLastRequest ==
    LET start_after == requests[Len(requests)]
    IN  IF start_after = None THEN 0 ELSE start_after[1]

\* C40: the poll that finds the pending request failed returns Ready(None),
\* as at the end of a complete listing; all that was yielded are objects
\* with a key, in listing order; and every keyed object of the pages
\* received before, that is of the store up to where the failed request
\* starts, has been yielded.
C40_FailedRequestEndsStream ==
    RequestFailed =>
        /\ list_poll.out = Ready(None)
        /\ \A i \in 1..Len(listed) : listed[i].key # None
        /\ IsPrefix(listed, Keyed(store))
        /\ next_index = Len(objects)
        /\ IsSuffix(Keyed(objects), listed)
        /\ listed = Keyed(SubSeq(store, 1, StartOfLastRequest))

\* the second request fails: the ten objects of the first page were yielded
C40_Witness ==
    /\ RequestFailed
    /\ Len(store) = 12
    /\ requests = <<None, Some(10)>>
    /\ Len(listed) = 10
    /\ list_poll.out = Ready(None)

\* every Pending of the last polls is one of the inner future or stream just
\* polled, or was returned after the stream woke its own waker
WakeupKept ==
    /\ Woken(map_poll, IF map_poll.pending # None THEN map_poll.future
                                                  ELSE map_poll.inner)
    /\ Woken(flatten_poll, flatten_poll.inner)
    /\ Woken(list_poll, list_poll.response)

\* the stream given to the executor returned Ready(None), all its items
\* yielded: the outputs for all items, the flattening of all results, the
\* keyed objects of the pages received, which are all the keyed objects of
\* the store when the stream ends on an empty page
Drained ==
    CASE task = "map" ->
            map_poll.out = Ready(None) /\ mapped = MapAll(map_source)
      [] task = "flatten" ->
            flatten_poll.out = Ready(None) /\ items = Flattened(source)
      [] task = "list" ->
            /\ list_poll.out = Ready(None)
            /\ next_index = Len(objects)
            /\ IsSuffix(Keyed(objects), listed)
            /\ IsPrefix(listed, Keyed(store))
            /\ (ListedAll /\ objects = <<>>) => listed = Keyed(store)
      [] OTHER -> FALSE

====
